---- MODULE Spec2Model ----
(***************************************************************************)
(* A model of the JARVIS voice-interaction core:                           *)
(*   jarvis/audio/recorder.py     AudioRecorder (VAD-gated capture)        *)
(*   jarvis/wake_word/detector.py WakeWordDetector                         *)
(*   jarvis/tts/placeholder.py    TTSClient (interruptible playback)       *)
(*   jarvis/jarvis_core.py        JARVISCore (orchestrator, wake thread)   *)
(*   jarvis/main.py               JarvisAssistant (plain loop)             *)
(*                                                                         *)
(* Time is in milliseconds.  The code reads the clock only to take         *)
(* differences (time.time() - start_time, a timeout, a sleep, now + 0.5),  *)
(* so the model keeps the differences: the time elapsed since start_time,  *)
(* the time left of a wait, the time left to a deadline.  Tick moves all   *)
(* of them by Step: 10 ms where only the recorder runs (the frame          *)
(* durations webrtcvad accepts are 10, 20 and 30 ms), 50 ms under the      *)
(* orchestrators, whose sleeps and timeouts are all multiples of 50 ms.    *)
(* A blocked call that can return (a frame is queued, a timeout or a sleep *)
(* is over) returns before the clock moves on; the requests to the network *)
(* take any time.                                                          *)
(***************************************************************************)
EXTENDS Integers, Sequences, FiniteSets, TLC

\* ------------------------------------------------------------------ bounds
MaxQueue == 1       \* frames the device may have put and the loop not yet taken
MaxFaults == 1      \* device / engine faults injected in one behaviour
MaxSilence == 2     \* largest vad_silence_duration tried, in units of 10 ms
MaxRec == 3         \* largest vad_max_recording_time tried, in units of 10 ms
MaxWords == 2       \* longest generated response, in words
MaxCycles == 2      \* interaction cycles started in one behaviour
MaxLate == 2        \* queue waits counted after should_stop is set
MaxRows == 4        \* rows a caller of save_history stores in one behaviour
MaxOld == 8         \* rows an earlier run left in jarvis_mem.db
MaxCalls == 3       \* calls of LaxmanaAI.process_input in one behaviour

\* ------------------------------------------------------- program constants
QueueTimeout == 100  \* audio_queue.get(timeout=0.1)
SelfMute == 500      \* self_trigger_disabled_until = time.time() + 0.5
WordDelay == 100     \* time.sleep(0.1) after each word
MonitorDelay == 50   \* time.sleep(0.05) in the monitor loop
MonitorRetry == 100  \* time.sleep(0.1) after an error in the monitor loop
JoinTimeout == 1000  \* monitoring_thread.join(timeout=1.0)
CoreDelay == 1000    \* time.sleep(1) at the end of JARVISCore.run's loop
MainDelay == 500     \* time.sleep(0.5) at the end of JarvisAssistant.run's loop
WakeDelay == 100     \* time.sleep(0.1) in listen_for_wake_word
WakeRetry == 1000    \* time.sleep(1) after an error in listen_for_wake_word
SampleRate == 16000  \* AUDIO_SAMPLE_RATE, the preferred rate of the probing
HistoryLimit == 6    \* get_history(limit=6) in get_ai_response
AudioChannels == 1   \* AUDIO_CHANNELS
StreamChannels == 1  \* sd.RawInputStream(..., channels=1, ...) in _record_with_vad
FallbackRate == 44100  \* `return 44100` at the end of the probing

Threads == {"main", "wake"}

\* The entry points that run interaction cycles: JARVISCore.run ("core"),
\* JarvisAssistant.run ("main"), and a caller of
\* JARVISCore.run_interaction_cycle that loops as JARVISCore.run does and
\* starts no thread of listen_for_wake_word ("cycle_test")
Orchestrators == {"core", "main", "cycle_test"}

\* What one captured frame makes the two engines answer:
\*   "speech" / "silence"  vad.is_speech returns True / False
\*   "wake"                porcupine.process reports the keyword (it is speech)
\*   "fault"               vad.is_speech raises on the frame
\*   "glitch"              porcupine.process raises on the frame (it is speech)
Kinds == {"speech", "silence", "wake", "fault", "glitch"}

VARIABLES
    app,            \* which entry point runs
    cfg,            \* jarvis/config.py: the VAD settings, in ms
    rec_detector,   \* AudioRecorder.wake_word_detector
    tts_detector,   \* TTSClient.wake_word_detector
    rec,            \* per thread: the locals of one _record_with_vad call
    stream,         \* per thread: the sd.RawInputStream of that call
    leaked,         \* streams abandoned open by earlier calls
    faults,         \* faults injected so far
    tts,            \* the locals of one speak_with_interruption call
    mon,            \* TTSClient.monitoring_thread
    interrupted,    \* TTSClient.interrupted
    monitoring_active, \* TTSClient.monitoring_active
    main_pc,        \* position of the main thread
    main_sleep,     \* time left of the main thread's sleep
    wake_pc,        \* position of the thread running listen_for_wake_word
    wake_sleep,     \* time left of that thread's sleep
    should_stop,    \* JARVISCore.should_stop
    is_speaking,    \* JARVISCore.is_speaking
    mute_left,      \* JARVISCore.self_trigger_disabled_until - time.time(), or 0
    transcript,     \* run_interaction_cycle / run_once: transcript
    reply,          \* what the chat completion request of the cycle gave
    response,       \* run_interaction_cycle / run_once: response
    store,          \* what sqlite3 does with jarvis_mem.db in this run
    capabilities,   \* what the input device answers to the probing
    vad,            \* AudioRecorder.vad is a webrtcvad.Vad (not None)
    sample_rate,    \* AudioRecorder.sample_rate
    channels,       \* AudioRecorder.channels
    history,        \* the rows of table history in jarvis_mem.db
    appended,       \* the turns save_history has stored in this run, in order
    recent,         \* what the last call of get_history was asked and answered
    messages,       \* the messages of the chat completion request of the cycle
    cycles,         \* cycles started
    outcome,        \* what the last finished cycle returned
    kbd,            \* a KeyboardInterrupt is propagating in the main thread
    heard,          \* wake-word detections since Speaking was entered
    late_waits,     \* queue waits the wake thread's capture ended under should_stop
    conversation_history, \* LaxmanaAI.conversation_history
    knowledge_base, \* LaxmanaAI.knowledge_base
    info,           \* what the last call of LaxmanaAI.get_system_info returned
    calls           \* calls of LaxmanaAI.process_input made so far

recVars == <<rec, stream, leaked>>
ttsVars == <<tts, mon, interrupted, monitoring_active>>
coreVars == <<main_pc, main_sleep, wake_pc, wake_sleep, should_stop, is_speaking,
              mute_left, transcript, reply, response, messages, recent, history, appended,
              cycles, outcome, kbd>>
confVars == <<app, cfg, rec_detector, tts_detector, store, capabilities, vad, sample_rate,
              channels>>

laxVars == <<conversation_history, knowledge_base, info, calls>>

vars == <<confVars, recVars, faults, ttsVars, coreVars, heard, late_waits, laxVars>>

\* the cycles are those of JARVISCore
IsCore == app \in {"core", "cycle_test"}

\* ------------------------------------------------------------ LAXMANA AI
\* A user input is known by the substrings generate_response looks for that
\* it contains (in user_input.lower(), and "?" in user_input itself):
\* "hello", "hi", "name", "quantum", "machine learning", "ml", "different",
\* "better", "help", "?".
\* The inputs of test_laxmana ("Tell me about machine learning" contains
\* "hi"), and one with none of the substrings
UserInputs ==
    {{"hello"}, {"name", "?"}, {"quantum"}, {"different", "?"},
     {"hi", "machine learning"}, {}}

\* LaxmanaAI.generate_response: the first branch whose substring is found;
\* the last branch draws one of three texts (choice is what random.choice
\* picks)
laxmana_generate_response(user_input, choice) ==
    IF "hello" \in user_input \/ "hi" \in user_input THEN [text |-> "hello", n |-> 0]
    ELSE IF "name" \in user_input THEN [text |-> "name", n |-> 0]
    ELSE IF "quantum" \in user_input THEN [text |-> "quantum", n |-> 0]
    ELSE IF "machine learning" \in user_input \/ "ml" \in user_input
         THEN [text |-> "machine learning", n |-> 0]
    ELSE IF "different" \in user_input \/ "better" \in user_input
         THEN [text |-> "different", n |-> 0]
    ELSE IF "help" \in user_input THEN [text |-> "help", n |-> 0]
    ELSE IF "?" \in user_input THEN [text |-> "question", n |-> 0]
    ELSE [text |-> "default", n |-> choice]

\* process_input that keeps the response only
process_input_response_only(h, user_input, generated) ==
    Append(h, [kind |-> "response", response |-> generated])

\* LaxmanaAI.process_input: the entry with the input is appended, the
\* response is generated, the entry with the response is appended (the
\* timestamps of the entries are left out)
process_input(h, user_input, generated) ==
    Append(Append(h, [kind |-> "user_input", user_input |-> user_input]),
           [kind |-> "response", response |-> generated])

\* The dicts a caller passes to update_knowledge
KnowledgeData ==
    {[k \in {} |-> 0], [k \in {"a"} |-> 1], [k \in {"a"} |-> 2], [k \in {"a", "b"} |-> 1]}

\* get_system_info was not called yet
NoInfo == [conversation_count |-> -1, knowledge_base_size |-> -1]

\* ------------------------------------------------------------- the probing
\* `rates_to_try = [preferred_rate, 44100, 48000, 22050, 32000, 8000]`
\* without its first element
CommonRates == <<44100, 48000, 22050, 32000, 8000>>

\* sd.query_devices(kind='input') raised, or its answer has no usable
\* default_samplerate
NoDefault == 0

\* The rates a device is asked about, and one it may name as its default
\* that is not in the list
ProbeRates == {16000, 44100, 48000, 22050, 32000, 8000, 96000}

\* What a device answers: its default rate, and the rates
\* sd.check_input_settings accepts with 1 channel and with 2 channels
Capabilities ==
    [default : {NoDefault, 48000, 96000},
     mono : SUBSET ProbeRates,
     stereo : SUBSET ProbeRates]

\* A device that accepts every rate with either channel count
FullDevice == [default |-> 48000, mono |-> ProbeRates, stereo |-> ProbeRates]

\* `x in list`
InList(x, list) == \E i \in 1 .. Len(list) : list[i] = x

\* rates_to_try after the try block: `if default_rate not in rates_to_try:
\* rates_to_try.insert(1, default_rate)`, skipped when the query raised
rates_to_try(preferred_rate, caps) ==
    IF caps.default # NoDefault /\ ~InList(caps.default, <<preferred_rate>> \o CommonRates)
    THEN <<preferred_rate, caps.default>> \o CommonRates
    ELSE <<preferred_rate>> \o CommonRates

\* sd.check_input_settings(samplerate=rate, channels=n) returns (TRUE) or
\* raises (FALSE)
check_input_settings(caps, rate, n) ==
    IF n = 1 THEN rate \in caps.mono ELSE rate \in caps.stereo

RECURSIVE TryRatesMonoOnly(_, _, _)
\* the loop without its second check
TryRatesMonoOnly(rates, caps, chans) ==
    IF rates = <<>>
    THEN [rate |-> FallbackRate, channels |-> chans]
    ELSE IF check_input_settings(caps, Head(rates), 1)
         THEN [rate |-> Head(rates), channels |-> chans]
         ELSE TryRatesMonoOnly(Tail(rates), caps, chans)

RECURSIVE TryRates(_, _, _)
\* `for rate in rates_to_try`: 1 channel, then 2 channels (self.channels =
\* 2), then the next rate; after the loop `return 44100`, self.channels as
\* it was
TryRates(rates, caps, chans) ==
    IF rates = <<>>
    THEN [rate |-> FallbackRate, channels |-> chans]
    ELSE IF check_input_settings(caps, Head(rates), 1)
         THEN [rate |-> Head(rates), channels |-> chans]
         ELSE IF check_input_settings(caps, Head(rates), 2)
              THEN [rate |-> Head(rates), channels |-> 2]
              ELSE TryRates(Tail(rates), caps, chans)

\* AudioRecorder._get_supported_sample_rate(preferred_rate): the rate it
\* returns and self.channels when it returns
get_supported_sample_rate(preferred_rate, caps, chans) ==
    TryRates(rates_to_try(preferred_rate, caps), caps, chans)

\* AudioRecorder.__init__: self.channels = AUDIO_CHANNELS, self.vad, and
\* self.sample_rate = self._get_supported_sample_rate(AUDIO_SAMPLE_RATE)
AudioRecorderNew(caps, vad_ok) ==
    LET got == get_supported_sample_rate(SampleRate, caps, AudioChannels)
    IN  [vad |-> vad_ok, sample_rate |-> got.rate, channels |-> got.channels]

\* ------------------------------------------------------------ the detector

\* WakeWordDetector.__init__ when a failed check or a failed creation of the
\* engine leaves the flag as configured
WakeWordDetectorInitKeepFlag(flag, key_ok, create_ok) ==
    IF flag /\ key_ok /\ create_ok
    THEN [enabled |-> TRUE, porcupine |-> TRUE]
    ELSE [enabled |-> flag, porcupine |-> FALSE]

\* WakeWordDetector.__init__: enabled only when the flag is on, the access
\* key is configured and pvporcupine.create succeeded; every other path
\* leaves enabled = False and porcupine = None.
WakeWordDetectorInit(flag, key_ok, create_ok) ==
    IF flag /\ key_ok /\ create_ok
    THEN [enabled |-> TRUE, porcupine |-> TRUE]
    ELSE [enabled |-> FALSE, porcupine |-> FALSE]

\* The owner's attribute wake_word_detector: None when WAKE_WORD_ENABLED is
\* off (the detector is never constructed), the constructed object otherwise.
OwnDetector(flag, key_ok, create_ok) ==
    IF flag
    THEN [present |-> TRUE] @@ WakeWordDetectorInit(flag, key_ok, create_ok)
    ELSE [present |-> FALSE, enabled |-> FALSE, porcupine |-> FALSE]

\* the test of the attribute alone: `self.wake_word_detector`
DetectorPresent(det) == det.present

\* `self.wake_word_detector and self.wake_word_detector.enabled`
DetectorOn(det) == det.present /\ det.enabled

\* porcupine.process(audio_frame) raises
EngineRaises(kind) == kind = "glitch"

\* WakeWordDetector.detect_wake_word on a frame of the given kind: what it
\* returns; `except Exception: return False` when the engine raises
detect_wake_word(det, kind) ==
    IF ~det.enabled \/ ~det.porcupine
    THEN FALSE
    ELSE IF EngineRaises(kind)
    THEN FALSE
    ELSE kind = "wake"

\* detect_wake_word without its try block: what the engine raises goes to
\* the caller
detect_wake_word_unguarded(det, kind) ==
    det.enabled /\ det.porcupine /\ EngineRaises(kind)

\* WakeWordDetector.detect_wake_word raises: never, the call of the engine
\* is inside `try: ... except Exception: return False`
detect_wake_word_raises(det, kind) ==
    FALSE

\* vad.is_speech on a frame that does not make the engine raise
is_speech(kind) == kind \in {"speech", "wake", "glitch"}

\* A detection is logged.  While JARVISCore is in Speaking: inside the
\* self-mute window, after it, and after it with words of the response still
\* to come.  Otherwise: while the loop of run is between two cycles.
Hear(detected) ==
    IF detected /\ ~is_speaking
    THEN [heard EXCEPT !.armed = @ \/ (IsCore /\ main_pc \in {"while", "sleep"})]
    ELSE IF detected
    THEN [heard EXCEPT !.muted = @ \/ mute_left > 0,
                       !.unmuted = @ \/ mute_left = 0,
                       !.midway = @ \/ (mute_left = 0 /\ tts.pc \in {"word", "pause"}
                                          /\ Len(tts.emitted) < tts.text.n)]
    ELSE heard

\* ------------------------------------------------------------ the recorder

\* int(self.vad_silence_duration / (frame_duration_ms / 1000))
max_silence_frames == cfg.silence \div cfg.frame

\* int(self.vad_max_recording_time / (frame_duration_ms / 1000)); computed by
\* the code and never read again
max_frames == cfg.max_time \div cfg.frame

\* int(self.sample_rate * frame_duration_ms / 1000): the samples of a frame
frame_size == (sample_rate * cfg.frame) \div 1000

\* no array returned (yet)
NoArray == [samples |-> 0]

NoStream == [state |-> "none", channels |-> 0, alive |-> TRUE, stops |-> 0, closes |-> 0,
             next_in |-> 0, produced |-> 0]

\* elapsed is time.time() - start_time (kept until it exceeds max_time, after
\* which the test of the loop no longer changes); wait_left is what is left of the
\* timeout of audio_queue.get.
IdleRec ==
    [pc |-> "idle", audio_queue |-> <<>>, audio_buffer |-> <<>>, silence_frames |-> 0,
     elapsed |-> 0, wait_left |-> 0, stop |-> "none", exc |-> FALSE, result |-> NoArray]

\* A stream that was created and not closed holds the device.
HoldsDevice(s) == s.state \in {"open", "active", "stopped"}

\* record() entered with use_vad and self.vad: the locals of _record_with_vad
\* are fresh; a stream a previous call left open is not referenced any more.
EnterRecord(t) ==
    /\ rec' = [rec EXCEPT ![t] = [IdleRec EXCEPT !.pc = "start"]]
    /\ stream' = [stream EXCEPT ![t] = NoStream]
    /\ leaked' = IF HoldsDevice(stream[t]) THEN leaked + 1 ELSE leaked

\* sd.RawInputStream(...), start_time = time.time(), stream.start()
VadOpenStream(t) ==
    /\ rec[t].pc = "start"
    /\ \/ \* the constructor raises: no stream exists
          /\ faults < MaxFaults
          /\ faults' = faults + 1
          /\ rec' = [rec EXCEPT ![t].pc = "raised", ![t].exc = TRUE]
          /\ UNCHANGED stream
       \/ \* stream.start() raises, outside the try block
          /\ faults < MaxFaults
          /\ faults' = faults + 1
          /\ rec' = [rec EXCEPT ![t].pc = "raised", ![t].exc = TRUE]
          /\ stream' = [stream EXCEPT ![t].state = "open", ![t].channels = StreamChannels]
       \/ /\ rec' = [rec EXCEPT ![t].pc = "loop"]
          /\ stream' = [stream EXCEPT ![t].state = "active", ![t].next_in = cfg.frame,
                                      ![t].channels = StreamChannels]
          /\ UNCHANGED faults
       \/ \* the stream starts and the device never calls back
          /\ faults < MaxFaults
          /\ faults' = faults + 1
          /\ rec' = [rec EXCEPT ![t].pc = "loop"]
          /\ stream' = [stream EXCEPT ![t].state = "active", ![t].alive = FALSE,
                                      ![t].channels = StreamChannels]
    /\ UNCHANGED <<confVars, laxVars, leaked, ttsVars, coreVars, heard, late_waits>>

\* The device thread is due to deliver a block and can.
FrameDue(t) ==
    /\ stream[t].state = "active"
    /\ stream[t].alive
    /\ stream[t].next_in <= 0
    /\ Len(rec[t].audio_queue) < MaxQueue

\* The device thread calls audio_callback with the next block of frame_size
\* samples, no sooner than the block has been captured.
DeviceCallback(t) ==
    /\ FrameDue(t)
    /\ \E k \in Kinds :
          /\ k = "fault" => faults < MaxFaults
          /\ k = "glitch" => faults < MaxFaults /\ DetectorOn(rec_detector)
          /\ faults' = IF k \in {"fault", "glitch"} THEN faults + 1 ELSE faults
          /\ rec' = [rec EXCEPT ![t].audio_queue =
                        Append(@, [id |-> stream[t].produced + 1, kind |-> k])]
    /\ stream' = [stream EXCEPT ![t].produced = @ + 1, ![t].next_in = @ + cfg.frame]
    /\ UNCHANGED <<confVars, laxVars, leaked, ttsVars, coreVars, heard, late_waits>>

\* `if time.time() - start_time > self.vad_max_recording_time: break`,
\* otherwise the loop goes to wait on the queue.
VadCheckTime(t) ==
    /\ rec[t].pc = "loop"
    /\ IF rec[t].elapsed > cfg.max_time
       THEN rec' = [rec EXCEPT ![t].pc = "stop", ![t].stop = "max"]
       ELSE rec' = [rec EXCEPT ![t].pc = "get", ![t].wait_left = QueueTimeout]
    /\ UNCHANGED <<confVars, laxVars, stream, leaked, faults, ttsVars, coreVars, heard, late_waits>>

\* the frame put in front of the buffer
KeepFirst(buffer, frame) == <<frame>> \o buffer

\* the buffer started again at the frame
KeepLast(buffer, frame) == <<frame>>

\* audio_buffer.append(audio_frame)
Keep(buffer, frame) == Append(buffer, frame)

\* ProcessFrame with the reset of the silence counter on a speech frame left
\* out
ProcessFrameNoReset(r, frame, kw_ok) ==
    LET taken == [r EXCEPT !.audio_queue = Tail(@), !.wait_left = 0] IN
    IF DetectorOn(rec_detector) /\ detect_wake_word_raises(rec_detector, frame.kind)
    THEN [taken EXCEPT !.pc = "stop", !.stop = "error", !.exc = TRUE]
    ELSE IF DetectorOn(rec_detector) /\ detect_wake_word(rec_detector, frame.kind)
    THEN [taken EXCEPT !.pc = "stop", !.stop = "wake", !.exc = ~kw_ok]
    ELSE IF frame.kind = "fault"
    THEN [taken EXCEPT !.pc = "stop", !.stop = "error", !.exc = TRUE]
    ELSE IF is_speech(frame.kind)
    THEN [taken EXCEPT !.pc = "loop", !.audio_buffer = Keep(@, frame)]
    ELSE IF r.silence_frames + 1 >= max_silence_frames
    THEN [taken EXCEPT !.pc = "stop", !.stop = "silence",
                       !.audio_buffer = Keep(@, frame), !.silence_frames = @ + 1]
    ELSE [taken EXCEPT !.pc = "loop", !.audio_buffer = Keep(@, frame),
                       !.silence_frames = @ + 1]

\* The body of the loop for a frame taken from the queue.  kw_ok: the print
\* of porcupine.keywords[0] on a detection succeeds (the attribute belongs to
\* the external engine object); otherwise it raises inside the try block.
ProcessFrame(r, frame, kw_ok) ==
    LET taken == [r EXCEPT !.audio_queue = Tail(@), !.wait_left = 0] IN
    IF DetectorOn(rec_detector) /\ detect_wake_word_raises(rec_detector, frame.kind)
    THEN [taken EXCEPT !.pc = "stop", !.stop = "error", !.exc = TRUE]
    ELSE IF DetectorOn(rec_detector) /\ detect_wake_word(rec_detector, frame.kind)
    THEN [taken EXCEPT !.pc = "stop", !.stop = "wake", !.exc = ~kw_ok]
    ELSE IF frame.kind = "fault"
    THEN [taken EXCEPT !.pc = "stop", !.stop = "error", !.exc = TRUE]
    ELSE IF is_speech(frame.kind)
    THEN [taken EXCEPT !.pc = "loop", !.audio_buffer = Keep(@, frame),
                       !.silence_frames = 0]
    ELSE IF r.silence_frames + 1 >= max_silence_frames
    THEN [taken EXCEPT !.pc = "stop", !.stop = "silence",
                       !.audio_buffer = Keep(@, frame), !.silence_frames = @ + 1]
    ELSE [taken EXCEPT !.pc = "loop", !.audio_buffer = Keep(@, frame),
                       !.silence_frames = @ + 1]

\* audio_queue.get is over in the thread of listen_for_wake_word with
\* should_stop already set: one more wait is counted
LateWait(t) ==
    IF t = "wake" /\ should_stop /\ late_waits < MaxLate
    THEN late_waits + 1
    ELSE late_waits

\* audio_queue.get(timeout=0.1) returns a frame
VadGetFrame(t) ==
    /\ rec[t].pc = "get"
    /\ rec[t].audio_queue # <<>>
    /\ \E kw_ok \in BOOLEAN :
          rec' = [rec EXCEPT ![t] = ProcessFrame(rec[t], Head(rec[t].audio_queue), kw_ok)]
    /\ heard' = Hear(DetectorOn(rec_detector)
                       /\ detect_wake_word(rec_detector, Head(rec[t].audio_queue).kind))
    /\ late_waits' = LateWait(t)
    /\ UNCHANGED <<confVars, laxVars, stream, leaked, faults, ttsVars, coreVars>>

\* audio_queue.get(timeout=0.1) raises queue.Empty: continue
VadGetEmpty(t) ==
    /\ rec[t].pc = "get"
    /\ rec[t].audio_queue = <<>>
    /\ rec[t].wait_left = 0
    /\ rec' = [rec EXCEPT ![t].pc = "loop"]
    /\ late_waits' = LateWait(t)
    /\ UNCHANGED <<confVars, laxVars, stream, leaked, faults, ttsVars, coreVars, heard>>

\* finally: stream.stop()
VadStreamStop(t) ==
    /\ rec[t].pc = "stop"
    /\ \/ /\ stream' = [stream EXCEPT ![t].state = "stopped", ![t].stops = @ + 1,
                                      ![t].next_in = 0]
          /\ rec' = [rec EXCEPT ![t].pc = "close", ![t].elapsed = 0]
          /\ UNCHANGED faults
       \/ \* stream.stop() raises: stream.close() is not reached
          /\ faults < MaxFaults
          /\ faults' = faults + 1
          /\ rec' = [rec EXCEPT ![t].pc = "raised", ![t].exc = TRUE, ![t].elapsed = 0]
          /\ UNCHANGED stream
    /\ UNCHANGED <<confVars, laxVars, leaked, ttsVars, coreVars, heard, late_waits>>

\* finally: stream.close(); then the pending exception goes on, if any.  The
\* queue is a local of the call and goes with it.
VadStreamClose(t) ==
    /\ rec[t].pc = "close"
    /\ stream' = [stream EXCEPT ![t].state = "closed", ![t].closes = @ + 1]
    /\ rec' = [rec EXCEPT ![t].pc = IF rec[t].exc THEN "raised" ELSE "convert",
                          ![t].audio_queue = <<>>]
    /\ UNCHANGED <<confVars, laxVars, leaked, faults, ttsVars, coreVars, heard, late_waits>>

\* the conversion when it returns a frame of zeros for an empty buffer
VadResultOneFrame(buffer) ==
    IF buffer # <<>>
    THEN [samples |-> Len(buffer) * frame_size]
    ELSE [samples |-> frame_size]

\* The array _record_with_vad returns, known by the number of its rows: the
\* samples of the frames of the buffer, joined and reshaped to
\* (-1, self.channels), or np.zeros((1, self.channels)) when the buffer is
\* empty
VadResult(buffer) ==
    IF buffer # <<>>
    THEN [samples |-> (Len(buffer) * frame_size) \div channels]
    ELSE [samples |-> 1]

\* audio_array.reshape(-1, self.channels) raises ValueError: the samples do
\* not fill rows of self.channels
ReshapeRaises(buffer) == buffer # <<>> /\ (Len(buffer) * frame_size) % channels # 0

\* The buffer is joined, reshaped and returned (an array of one row of zeros
\* when no frame was kept).
VadConvert(t) ==
    /\ rec[t].pc = "convert"
    /\ rec' = IF ReshapeRaises(rec[t].audio_buffer)
              THEN [rec EXCEPT ![t].pc = "raised", ![t].exc = TRUE]
              ELSE [rec EXCEPT ![t].pc = "returned",
                               ![t].result = VadResult(rec[t].audio_buffer)]
    /\ UNCHANGED <<confVars, laxVars, stream, leaked, faults, ttsVars, coreVars, heard, late_waits>>

Recorder(t) ==
    \/ VadOpenStream(t)
    \/ DeviceCallback(t)
    \/ VadCheckTime(t)
    \/ VadGetFrame(t)
    \/ VadGetEmpty(t)
    \/ VadStreamStop(t)
    \/ VadStreamClose(t)
    \/ VadConvert(t)

\* a _record_with_vad call is over, by return or by exception
CallOver(t) == rec[t].pc \in {"returned", "raised"}

\* ------------------------------------------------------------- the TTS client

\* A text is known by where it comes from and by the number of its words;
\* text.split() is the sequence of its words.
Bool(b) == IF b THEN "True" ELSE "False"

NoText == [src |-> "none", n |-> 0]

Split(text) == [k \in 1..text.n |-> k]

\* An audio_callback is the set of things a call of it may do: return None
\* ("none"), return a frame of some kind, raise ("raise").  No callback is {}.
NoCallback == {}

IdleTTS == [pc |-> "idle", text |-> NoText, emitted |-> <<>>, left |-> 0, result |-> "none"]

IdleMonitor == [pc |-> "none", left |-> 0, callback |-> NoCallback]

\* speak_with_interruption without `self.interrupted = False`
SpeakEnterNoReset(text, callback) ==
    IF ~DetectorOn(tts_detector)
    THEN /\ tts' = [IdleTTS EXCEPT !.pc = "returned", !.text = text,
                                   !.emitted = Split(text), !.result = "True"]
         /\ UNCHANGED <<mon, interrupted, monitoring_active>>
    ELSE /\ tts' = [IdleTTS EXCEPT !.pc = "word", !.text = text]
         /\ UNCHANGED interrupted
         /\ monitoring_active' = TRUE
         /\ mon' = [pc |-> "begin", left |-> 0, callback |-> callback]

\* speak_with_interruption up to the try block.  Without an enabled detector
\* it is speak(text), which prints the whole text, and True.  Otherwise the
\* flag is cleared and _start_wake_word_monitoring starts the thread.
SpeakEnter(text, callback) ==
    IF ~DetectorOn(tts_detector)
    THEN /\ tts' = [IdleTTS EXCEPT !.pc = "returned", !.text = text,
                                   !.emitted = Split(text), !.result = "True"]
         /\ UNCHANGED <<mon, interrupted, monitoring_active>>
    ELSE /\ tts' = [IdleTTS EXCEPT !.pc = "word", !.text = text]
         /\ interrupted' = FALSE
         /\ monitoring_active' = TRUE
         /\ mon' = [pc |-> "begin", left |-> 0, callback |-> callback]

\* WordStep without the test of the flag
WordStepUnchecked(s, flag) ==
    IF Len(s.emitted) = s.text.n
    THEN [s EXCEPT !.pc = "finally"]
    ELSE [s EXCEPT !.pc = "pause", !.left = WordDelay,
                   !.emitted = Append(@, Split(s.text)[Len(@) + 1])]

\* One turn of `for i, word in enumerate(words)`: the loop is over, or the
\* flag is set and the loop breaks, or the next word is printed and the
\* thread sleeps.
WordStep(s, flag) ==
    IF Len(s.emitted) = s.text.n \/ flag
    THEN [s EXCEPT !.pc = "finally"]
    ELSE [s EXCEPT !.pc = "pause", !.left = WordDelay,
                   !.emitted = Append(@, Split(s.text)[Len(@) + 1])]

SpeakWord ==
    /\ tts.pc = "word"
    /\ tts' = WordStep(tts, interrupted)
    /\ UNCHANGED <<confVars, laxVars, recVars, faults, mon, interrupted, monitoring_active,
                   coreVars, heard, late_waits>>

\* time.sleep(0.1) is over
SpeakResume ==
    /\ tts.pc = "pause"
    /\ tts.left = 0
    /\ tts' = [tts EXCEPT !.pc = "word"]
    /\ UNCHANGED <<confVars, laxVars, recVars, faults, mon, interrupted, monitoring_active,
                   coreVars, heard, late_waits>>

\* finally: _stop_wake_word_monitoring() clears the flag of the monitor and
\* joins the thread for at most a second
SpeakFinally ==
    /\ tts.pc = "finally"
    /\ monitoring_active' = FALSE
    /\ tts' = [tts EXCEPT !.pc = "join", !.left = JoinTimeout]
    /\ UNCHANGED <<confVars, laxVars, recVars, faults, mon, interrupted, coreVars, heard, late_waits>>

\* join is over; `return not self.interrupted`, or the pending
\* KeyboardInterrupt goes on
SpeakJoined ==
    /\ tts.pc = "join"
    /\ mon.pc = "exited" \/ tts.left = 0
    /\ tts' = [tts EXCEPT !.pc = IF kbd THEN "raised" ELSE "returned", !.left = 0,
                          !.result = IF kbd THEN "none" ELSE Bool(~interrupted)]
    /\ UNCHANGED <<confVars, laxVars, recVars, faults, mon, interrupted, monitoring_active,
                   coreVars, heard, late_waits>>

\* _monitor_wake_word: `if not audio_callback: return`
MonitorBegin ==
    /\ mon.pc = "begin"
    /\ mon' = [mon EXCEPT !.pc = IF mon.callback = NoCallback THEN "exited" ELSE "check"]
    /\ UNCHANGED <<confVars, laxVars, recVars, faults, tts, interrupted, monitoring_active,
                   coreVars, heard, late_waits>>

\* `while self.monitoring_active and not self.interrupted`
MonitorCheck ==
    /\ mon.pc = "check"
    /\ mon' = [mon EXCEPT !.pc = IF monitoring_active /\ ~interrupted THEN "poll"
                                 ELSE "exited"]
    /\ UNCHANGED <<confVars, laxVars, recVars, faults, tts, interrupted, monitoring_active,
                   coreVars, heard, late_waits>>

\* The frame the monitor got makes the detector report the wake word.
\* `audio_frame and ...`: None is no frame.
MonitorDetects(got) == got \in Kinds /\ detect_wake_word(tts_detector, got)

\* The turn of the monitor loop ends in `except Exception`: the callback or
\* the detector raised
MonitorRaises(got) ==
    \/ got = "raise"
    \/ got \in Kinds /\ detect_wake_word_raises(tts_detector, got)

\* The body of the monitor loop: one call of the callback
MonitorPoll ==
    /\ mon.pc = "poll"
    /\ \E got \in mon.callback :
          /\ IF ~MonitorRaises(got) /\ MonitorDetects(got)
             THEN /\ interrupted' = TRUE
                  /\ mon' = [mon EXCEPT !.pc = "exited"]
             ELSE /\ mon' = [mon EXCEPT !.pc = "sleep",
                                        !.left = IF MonitorRaises(got) THEN MonitorRetry
                                                 ELSE MonitorDelay]
                  /\ UNCHANGED interrupted
          /\ heard' = Hear(~MonitorRaises(got) /\ MonitorDetects(got))
    /\ UNCHANGED <<confVars, laxVars, recVars, faults, tts, monitoring_active, coreVars, late_waits>>

\* the sleep of the monitor is over
MonitorResume ==
    /\ mon.pc = "sleep"
    /\ mon.left = 0
    /\ mon' = [mon EXCEPT !.pc = "check"]
    /\ UNCHANGED <<confVars, laxVars, recVars, faults, tts, interrupted, monitoring_active,
                   coreVars, heard, late_waits>>

Playback ==
    \/ SpeakWord
    \/ SpeakResume
    \/ SpeakFinally
    \/ SpeakJoined
    \/ MonitorBegin
    \/ MonitorCheck
    \/ MonitorPoll
    \/ MonitorResume

\* --------------------------------------------------------- the collaborators

\* A transcript is a string over two characters, a blank and a letter.
RECURSIVE LStrip(_)
LStrip(s) ==
    IF s # <<>> /\ Head(s) = " " THEN LStrip(Tail(s)) ELSE s

RECURSIVE RStrip(_)
RStrip(s) ==
    IF s # <<>> /\ s[Len(s)] = " " THEN RStrip(SubSeq(s, 1, Len(s) - 1)) ELSE s

\* str.strip()
Strip(s) == RStrip(LStrip(s))

\* The transcript field of the Deepgram answer
RawTranscripts == {<<>>, <<" ">>, <<"a">>, <<" ", "a", " ">>}

\* DeepgramClient.transcribe once the answer is parsed: "" for an empty or
\* blank transcript, the stripped transcript otherwise
DeepgramTranscribe(raw) ==
    IF raw = <<>> \/ Strip(raw) = <<>> THEN <<>> ELSE Strip(raw)

\* the test of the transcript left out
NoSpeechOff(s) == FALSE

\* `not transcript or transcript.strip() == ""`
NoSpeech(s) == s = <<>> \/ Strip(s) = <<>>

\* What the chat completion gives: an exception, empty content, or content of
\* n words
NoReply == [kind |-> "none", n |-> 0]

\* get_ai_response left its try block before the request was sent
RequestNotSent == [kind |-> "raise", n |-> 0]

Replies ==
    {[kind |-> "raise", n |-> 0], [kind |-> "empty", n |-> 0],
     [kind |-> "content", n |-> MaxWords]}

\* the call raised
Raised == [src |-> "raised", n |-> 0]

\* "I apologize, but I couldn't generate a response."
ApologyText == [src |-> "apology", n |-> 8]

\* "Neural Core error. I cannot fetch that right now, Sir."
NeuralErrorText == [src |-> "neural_error", n |-> 10]

\* "I'm having trouble processing that request, Sir."
TroubleText == [src |-> "trouble", n |-> 7]

\* GroqClient.generate_response and generate_response_with_messages: log and
\* re-raise, or the apology for empty content, or the stripped content
GroqGenerate(answer) ==
    IF answer.kind = "raise" THEN Raised
    ELSE IF answer.kind = "empty" THEN ApologyText
    ELSE [src |-> "llm", n |-> answer.n]

\* get_ai_response without its except clause
get_ai_response_raising(got) == got

\* JARVISCore.get_ai_response: any exception becomes the fixed text
get_ai_response(got) ==
    IF got = Raised THEN NeuralErrorText ELSE got

\* JARVISCore.generate_response: the answer of get_ai_response, or the second
\* fixed text when something raised on the way
generate_response(got) ==
    IF get_ai_response(got) = Raised THEN TroubleText ELSE get_ai_response(got)

\* The history store.  In one run sqlite3 serves every operation ("ok"),
\* fails every operation ("down": the file cannot be opened, or init_db
\* failed and there is no table), or fails some ("flaky": the file is locked
\* now and then).  served: the statements of one call raised nothing.
Stores == {"ok", "down", "flaky"}

StoreServes ==
    IF store = "ok" THEN {TRUE} ELSE IF store = "down" THEN {FALSE} ELSE BOOLEAN

\* a method of the store without its try block: what sqlite3 raises goes to
\* the caller
store_unguarded(served) == ~served

\* save_history raises: never, its statements are inside
\* `try: ... except Exception: pass`
save_history_raises(served) == FALSE

\* get_history raises: never, its statements are inside
\* `try: ... except Exception: return []`
get_history_raises(served) == FALSE

\* JARVISCore.save_history: a row is added with the next rowid, or the
\* exception is passed over and nothing is stored
save_history(h, role, content, served) ==
    IF served THEN Append(h, [role |-> role, content |-> content]) ELSE h

\* SELECT role, content FROM history ORDER BY rowid DESC: the rows from the
\* last stored to the first
OrderByRowidDesc(h) == [i \in 1 .. Len(h) |-> h[Len(h) + 1 - i]]

\* LIMIT ?: the first n rows of the answer (all of them when n is negative)
Limit(rows, n) ==
    IF n < 0 \/ n >= Len(rows) THEN rows ELSE SubSeq(rows, 1, n)

\* reversed(rows)
Reversed(rows) == [i \in 1 .. Len(rows) |-> rows[Len(rows) + 1 - i]]

\* get_history with the rows left in the order of the SELECT
get_history_desc(h, limit, served) ==
    IF served THEN Limit(OrderByRowidDesc(h), limit) ELSE <<>>

\* JARVISCore.get_history: the rows of the SELECT, reversed; [] when
\* anything raised
get_history(h, limit, served) ==
    IF served THEN Reversed(Limit(OrderByRowidDesc(h), limit)) ELSE <<>>

\* no call of get_history yet
NoRecent == [limit |-> 0, served |-> FALSE, rows |-> <<>>]

\* a call of get_history, asked and answered
Recent(h, limit, served) ==
    [limit |-> limit, served |-> served, rows |-> get_history(h, limit, served)]

\* sys_prompt of get_ai_response
SysPrompt == [src |-> "sys_prompt", n |-> 68]

\* SYSTEM_PROMPT of config.py
ConfigPrompt == [src |-> "SYSTEM_PROMPT", n |-> 14]

\* no request built
NoMessages == <<>>

\* the request with the transcript put before the turns of the history
get_ai_messages_user_first(rows, prompt) ==
    <<[role |-> "system", content |-> SysPrompt]>>
        \o <<[role |-> "user", content |-> prompt]>> \o rows

\* get_ai_response: messages = [system], extended by the rows get_history
\* answered, and the prompt appended as the user message
get_ai_messages(rows, prompt) ==
    <<[role |-> "system", content |-> SysPrompt]>>
        \o rows \o <<[role |-> "user", content |-> prompt]>>

\* GroqClient.generate_response: the system prompt and the user input
GroqMessages(user_input) ==
    <<[role |-> "system", content |-> ConfigPrompt],
      [role |-> "user", content |-> user_input]>>

\* an audio_callback that returns the frames of the microphone
mic_audio_callback == {"none"} \cup Kinds

\* The audio_callback of run_interaction_cycle: `return None`
jarvis_audio_callback == {"none"}

\* The audio_callback of run_once: `lambda: None`
lambda_audio_callback == {"none"}

\* ------------------------------------------------------- the orchestrators

\* nothing returned yet
NoOutcome == [value |-> "none", at |-> "none"]

NoneHeard == [muted |-> FALSE, unmuted |-> FALSE, midway |-> FALSE, armed |-> FALSE]

Delay == IF IsCore THEN CoreDelay ELSE MainDelay

\* run_interaction_cycle / run_once returns, at the place the main thread is
\* at: the locals are gone, the loop of run sleeps
EndCycle(result) ==
    /\ outcome' = [value |-> result, at |-> main_pc]
    /\ main_pc' = "sleep"
    /\ main_sleep' = Delay
    /\ transcript' = <<>>
    /\ reply' = NoReply
    /\ response' = NoText
    /\ messages' = NoMessages
    /\ recent' = NoRecent

\* the except clause of the cycle left out: the exception goes through run,
\* which handles KeyboardInterrupt only, and ends the main thread
CycleUncaught ==
    /\ outcome' = [value |-> "raised", at |-> main_pc]
    /\ main_pc' = "raised"
    /\ main_sleep' = 0
    /\ transcript' = <<>>
    /\ reply' = NoReply
    /\ response' = NoText
    /\ messages' = NoMessages
    /\ recent' = NoRecent

\* `except Exception as e` in run_interaction_cycle and in run_once: the
\* error is printed and the cycle returns False
CycleFailed ==
    EndCycle("False")

\* `except KeyboardInterrupt` in run: JARVISCore sets should_stop, and run
\* returns
Shutdown ==
    /\ main_pc' = "exited"
    /\ main_sleep' = 0
    /\ should_stop' = IF IsCore THEN TRUE ELSE should_stop
    /\ kbd' = FALSE
    /\ transcript' = <<>>
    /\ reply' = NoReply
    /\ response' = NoText
    /\ messages' = NoMessages
    /\ recent' = NoRecent

\* record() is over for its caller: the locals of the call are gone, and a
\* stream that was not closed stays open with nothing referring to it.
LeaveRecord(t) ==
    /\ rec' = [rec EXCEPT ![t] = IdleRec]
    /\ stream' = [stream EXCEPT ![t] = NoStream]
    /\ leaked' = IF HoldsDevice(stream[t]) THEN leaked + 1 ELSE leaked

\* run(): JARVISCore starts the thread of listen_for_wake_word; then the loop
RunStart ==
    /\ app \in Orchestrators
    /\ main_pc = "init"
    /\ main_pc' = "while"
    /\ wake_pc' = IF app = "core" THEN "while" ELSE wake_pc
    /\ UNCHANGED <<confVars, laxVars, recVars, faults, ttsVars, main_sleep, wake_sleep, should_stop,
                   is_speaking, mute_left, transcript, reply, response, messages, recent, history, appended, cycles,
                   outcome, kbd, heard, late_waits>>

\* `while not self.should_stop` / `while True`, then run_interaction_cycle /
\* run_once is called and calls recorder.record(AUDIO_OUTPUT_FILE, use_vad=True)
CycleStart ==
    /\ app \in Orchestrators
    /\ main_pc = "while"
    /\ IF IsCore /\ should_stop
       THEN /\ main_pc' = "exited"
            /\ UNCHANGED <<recVars, cycles, outcome, heard>>
       ELSE /\ cycles < MaxCycles
            /\ cycles' = cycles + 1
            /\ EnterRecord("main")
            /\ main_pc' = "recording"
            /\ outcome' = NoOutcome
            /\ heard' = [heard EXCEPT !.armed = FALSE]
    /\ UNCHANGED <<confVars, laxVars, faults, ttsVars, main_sleep, wake_pc, wake_sleep, should_stop,
                   is_speaking, mute_left, transcript, reply, response, messages, recent, history, appended, kbd,
                   late_waits>>

\* record() returns the file, or raises what _record_with_vad raised
CycleRecorded ==
    /\ app \in Orchestrators
    /\ main_pc = "recording"
    /\ CallOver("main")
    /\ LeaveRecord("main")
    /\ IF rec["main"].pc = "returned"
       THEN /\ main_pc' = "transcribe"
            /\ UNCHANGED <<main_sleep, should_stop, transcript, reply, response, messages, recent, outcome, kbd>>
       ELSE IF kbd
       THEN Shutdown /\ UNCHANGED outcome
       ELSE CycleFailed /\ UNCHANGED <<should_stop, kbd>>
    /\ UNCHANGED <<confVars, laxVars, faults, ttsVars, wake_pc, wake_sleep, is_speaking, mute_left,
                   history, appended, cycles, heard, late_waits>>

\* stt_client.transcribe(audio_file) answers or raises
CycleTranscribe ==
    /\ app \in Orchestrators
    /\ main_pc = "transcribe"
    /\ \/ \E raw \in RawTranscripts :
             /\ transcript' = DeepgramTranscribe(raw)
             /\ main_pc' = "check"
             /\ UNCHANGED <<main_sleep, reply, response, messages, recent, outcome>>
       \/ CycleFailed
    /\ UNCHANGED <<confVars, laxVars, recVars, faults, ttsVars, wake_pc, wake_sleep, should_stop,
                   is_speaking, mute_left, history, appended, cycles, kbd, heard, late_waits>>

\* `if not transcript or transcript.strip() == "": return False`; otherwise
\* the generation is called: get_ai_response (JARVISCore) or
\* GroqClient.generate_response (JarvisAssistant) builds the messages and
\* sends the request (an exception before the request is one for the
\* handler of get_ai_response, as a failed request is)
CycleCheck ==
    /\ app \in Orchestrators
    /\ main_pc = "check"
    /\ IF NoSpeech(transcript)
       THEN EndCycle("False")
       ELSE /\ IF IsCore
               THEN \E served \in StoreServes :
                       /\ recent' = Recent(history, HistoryLimit, served)
                       /\ IF get_history_raises(served)
                          THEN /\ main_pc' = "respond"
                               /\ reply' = RequestNotSent
                               /\ messages' = NoMessages
                          ELSE /\ main_pc' = "generate"
                               /\ messages' = get_ai_messages(recent'.rows, transcript)
                               /\ UNCHANGED reply
               ELSE /\ main_pc' = "generate"
                    /\ messages' = GroqMessages(transcript)
                    /\ UNCHANGED <<recent, reply>>
            /\ UNCHANGED <<main_sleep, transcript, response, outcome>>
    /\ UNCHANGED <<confVars, laxVars, recVars, faults, ttsVars, wake_pc, wake_sleep, should_stop,
                   is_speaking, mute_left, history, appended, cycles, kbd, heard, late_waits>>

\* the chat completion request is answered
CycleLLM ==
    /\ app \in Orchestrators
    /\ main_pc = "generate"
    /\ \E r \in Replies : reply' = r
    /\ main_pc' = "respond"
    /\ UNCHANGED <<confVars, laxVars, recVars, faults, ttsVars, main_sleep, wake_pc, wake_sleep,
                   should_stop, is_speaking, mute_left, transcript, response, messages, recent, history, appended,
                   cycles, outcome, kbd, heard, late_waits>>

\* generate_response with the assistant turn stored before the user turn
SaveTurnsAssistantFirst(h, user_input, got, user_ok, assistant_ok) ==
    IF get_ai_response(got) = Raised
    THEN h
    ELSE save_history(save_history(h, "assistant", get_ai_response(got), assistant_ok),
                      "user", user_input, user_ok)

\* generate_response: save_history("user", user_input), then
\* save_history("assistant", response); neither when get_ai_response raised
SaveTurns(h, user_input, got, user_ok, assistant_ok) ==
    IF get_ai_response(got) = Raised
    THEN h
    ELSE save_history(save_history(h, "user", user_input, user_ok),
                      "assistant", get_ai_response(got), assistant_ok)

\* Speaking entered with the deadline left as it was
EnterSpeakingNoDeadline ==
    /\ is_speaking' = TRUE
    /\ UNCHANGED mute_left

\* `self.is_speaking = True` and
\* `self.self_trigger_disabled_until = time.time() + 0.5`
EnterSpeaking ==
    /\ is_speaking' = TRUE
    /\ mute_left' = SelfMute

\* JARVISCore: generate_response saves the two turns (an exception on the
\* way would make it return its own fixed text); then Speaking is entered
\* and speak_with_interruption called.
CoreRespond ==
    /\ IsCore
    /\ main_pc = "respond"
    /\ \E user_ok, assistant_ok \in StoreServes :
          LET got == GroqGenerate(reply)
              text == IF save_history_raises(user_ok) \/ save_history_raises(assistant_ok)
                      THEN TroubleText
                      ELSE generate_response(got)
          IN  /\ response' = text
              /\ history' = SaveTurns(history, transcript, got, user_ok, assistant_ok)
              /\ appended' = SaveTurns(appended, transcript, got, user_ok, assistant_ok)
              /\ EnterSpeaking
              /\ SpeakEnter(text, jarvis_audio_callback)
    /\ heard' = [heard EXCEPT !.muted = FALSE, !.unmuted = FALSE, !.midway = FALSE]
    /\ main_pc' = "speaking"
    /\ UNCHANGED <<confVars, laxVars, recVars, faults, main_sleep, wake_pc, wake_sleep, should_stop,
                   transcript, reply, messages, recent, cycles, outcome, kbd, late_waits>>

\* run_once when a failed generation is answered by a spoken fixed text, as
\* in JARVISCore
MainRespondSpeaksError ==
    /\ app = "main"
    /\ main_pc = "respond"
    /\ response' = generate_response(GroqGenerate(reply))
    /\ SpeakEnter(generate_response(GroqGenerate(reply)), lambda_audio_callback)
    /\ main_pc' = "speaking"
    /\ UNCHANGED <<main_sleep, transcript, reply, messages, recent, outcome>>
    /\ UNCHANGED <<confVars, laxVars, recVars, faults, wake_pc, wake_sleep, should_stop, is_speaking,
                   mute_left, history, appended, cycles, kbd, heard, late_waits>>

\* JarvisAssistant: llm_client.generate_response raises into the handler of
\* run_once, or its answer is spoken.
MainRespond ==
    /\ app = "main"
    /\ main_pc = "respond"
    /\ IF GroqGenerate(reply) = Raised
       THEN /\ CycleFailed
            /\ UNCHANGED ttsVars
       ELSE /\ response' = GroqGenerate(reply)
            /\ SpeakEnter(GroqGenerate(reply), lambda_audio_callback)
            /\ main_pc' = "speaking"
            /\ UNCHANGED <<main_sleep, transcript, reply, messages, recent, outcome>>
    /\ UNCHANGED <<confVars, laxVars, recVars, faults, wake_pc, wake_sleep, should_stop, is_speaking,
                   mute_left, history, appended, cycles, kbd, heard, late_waits>>

\* speak_with_interruption is over: JARVISCore leaves Speaking; both return
\* True whatever the call returned.  A pending KeyboardInterrupt goes to run.
CycleSpoken ==
    /\ app \in Orchestrators
    /\ main_pc = "speaking"
    /\ tts.pc \in {"returned", "raised"}
    /\ tts' = IdleTTS
    /\ heard' = [NoneHeard EXCEPT !.armed = heard.armed]
    /\ IF tts.pc = "returned"
       THEN /\ is_speaking' = IF IsCore THEN FALSE ELSE is_speaking
            /\ EndCycle("True")
            /\ UNCHANGED <<should_stop, kbd>>
       ELSE /\ Shutdown
            /\ UNCHANGED <<is_speaking, outcome>>
    /\ UNCHANGED <<confVars, laxVars, recVars, faults, mon, interrupted, monitoring_active, wake_pc,
                   wake_sleep, mute_left, history, appended, cycles, late_waits>>

\* time.sleep(1) / time.sleep(0.5) at the end of the loop body is over
RunResume ==
    /\ app \in Orchestrators
    /\ main_pc = "sleep"
    /\ main_sleep = 0
    /\ main_pc' = "while"
    /\ UNCHANGED <<confVars, laxVars, recVars, faults, ttsVars, main_sleep, wake_pc, wake_sleep,
                   should_stop, is_speaking, mute_left, transcript, reply, response, messages, recent, history, appended,
                   cycles, outcome, kbd, heard, late_waits>>

\* Ctrl+C while the main thread waits: on the queue (the finally block of
\* _record_with_vad runs), on the network or in a sleep, or inside
\* speak_with_interruption (its finally block runs; in join it is already
\* running).
KeyboardInterrupt ==
    /\ app \in Orchestrators
    /\ ~kbd
    /\ \/ /\ main_pc = "recording"
          /\ rec["main"].pc = "get"
          /\ rec' = [rec EXCEPT !["main"].pc = "stop", !["main"].stop = "interrupt",
                                !["main"].exc = TRUE, !["main"].wait_left = 0]
          /\ kbd' = TRUE
          /\ UNCHANGED <<tts, main_pc, main_sleep, should_stop, transcript, reply, response, messages, recent>>
       \/ /\ main_pc \in {"transcribe", "generate", "sleep"}
          /\ Shutdown
          /\ UNCHANGED <<rec, tts>>
       \/ /\ main_pc = "speaking"
          /\ tts.pc \in {"pause", "join"}
          /\ tts' = [tts EXCEPT !.pc = IF tts.pc = "pause" THEN "finally" ELSE "raised",
                                !.left = 0]
          /\ kbd' = TRUE
          /\ UNCHANGED <<rec, main_pc, main_sleep, should_stop, transcript, reply, response, messages, recent>>
    /\ UNCHANGED <<confVars, laxVars, stream, leaked, faults, mon, interrupted, monitoring_active,
                   wake_pc, wake_sleep, is_speaking, mute_left, history, appended, cycles, outcome,
                   heard, late_waits>>

\* listen_for_wake_word: `while not self.should_stop`, then
\* recorder.record("temp_wake_check.wav", use_vad=True)
WakeLoop ==
    /\ wake_pc = "while"
    /\ IF should_stop
       THEN /\ wake_pc' = "exited"
            /\ UNCHANGED recVars
       ELSE /\ EnterRecord("wake")
            /\ wake_pc' = "recording"
    /\ UNCHANGED <<confVars, laxVars, faults, ttsVars, main_pc, main_sleep, wake_sleep, should_stop,
                   is_speaking, mute_left, transcript, reply, response, messages, recent, history, appended, cycles,
                   outcome, kbd, heard, late_waits>>

\* record() is over in the wake thread: sleep 0.1 s, or 1 s after an error
WakeRecorded ==
    /\ wake_pc = "recording"
    /\ CallOver("wake")
    /\ LeaveRecord("wake")
    /\ wake_pc' = "sleep"
    /\ wake_sleep' = IF rec["wake"].pc = "returned" THEN WakeDelay ELSE WakeRetry
    /\ UNCHANGED <<confVars, laxVars, faults, ttsVars, main_pc, main_sleep, should_stop, is_speaking,
                   mute_left, transcript, reply, response, messages, recent, history, appended, cycles, outcome, kbd,
                   heard, late_waits>>

\* the sleep of the wake thread is over
WakeResume ==
    /\ wake_pc = "sleep"
    /\ wake_sleep = 0
    /\ wake_pc' = "while"
    /\ UNCHANGED <<confVars, laxVars, recVars, faults, ttsVars, main_pc, main_sleep, wake_sleep,
                   should_stop, is_speaking, mute_left, transcript, reply, response, messages, recent, history, appended,
                   cycles, outcome, kbd, heard, late_waits>>

\* -------------------------------------------------------------------- time

\* the resolution of the clock
Step == IF app = "recorder_test" THEN 10 ELSE 50

\* what is left of a wait after one step
Dec(n) == IF n > Step THEN n - Step ELSE 0

\* audio_queue.get can return: a frame is queued or the timeout is over
GetReady(t) ==
    /\ rec[t].pc = "get"
    /\ rec[t].audio_queue # <<>> \/ rec[t].wait_left = 0

\* The thread in _record_with_vad has a step to take now.  Between two
\* turns of the loop it may be held up for some 10 ms, as long as the device
\* is not held up by a full queue; it is not held up for the 50 ms of a step
\* of the clock under the orchestrators.
RecorderBusy(t) ==
    \/ FrameDue(t)
    \/ GetReady(t)
    \/ rec[t].pc \in {"start", "stop", "close", "convert"}
    \/ rec[t].pc = "loop" /\ Step > 10
    \/ rec[t].pc = "loop" /\ ~(stream[t].alive /\ Len(rec[t].audio_queue) < MaxQueue)

\* The playback or the monitor has a step to take now.
PlaybackBusy ==
    \/ tts.pc \in {"word", "finally"}
    \/ tts.pc = "pause" /\ tts.left = 0
    \/ tts.pc = "join" /\ (mon.pc = "exited" \/ tts.left = 0)
    \/ mon.pc \in {"begin", "check", "poll"}
    \/ mon.pc = "sleep" /\ mon.left = 0

\* A caller has a step to take now.  The requests to Deepgram and Groq take
\* any time.
CallerBusy ==
    \/ main_pc \in {"check", "respond"}
    \/ main_pc = "init" /\ app # "tts_test"
    \/ main_pc = "while" /\ cycles < MaxCycles
    \/ main_pc = "recording" /\ CallOver("main")
    \/ main_pc = "speaking" /\ tts.pc \in {"returned", "raised"}
    \/ main_pc = "sleep" /\ main_sleep = 0
    \/ wake_pc = "while"
    \/ wake_pc = "recording" /\ CallOver("wake")
    \/ wake_pc = "sleep" /\ wake_sleep = 0

\* Step ms pass.
Tick ==
    /\ \A t \in Threads : ~RecorderBusy(t)
    /\ ~PlaybackBusy
    /\ ~CallerBusy
    /\ rec' = [t \in Threads |->
                 [rec[t] EXCEPT !.elapsed = IF rec[t].pc \in {"loop", "get"}
                                                 /\ @ <= cfg.max_time
                                            THEN @ + Step ELSE @,
                                !.wait_left = Dec(@)]]
    /\ stream' = [t \in Threads |->
                    [stream[t] EXCEPT !.next_in = IF stream[t].state = "active"
                                                        /\ stream[t].alive /\ @ > 0
                                                   THEN @ - Step ELSE @]]
    /\ tts' = [tts EXCEPT !.left = Dec(@)]
    /\ mon' = [mon EXCEPT !.left = Dec(@)]
    /\ main_sleep' = Dec(main_sleep)
    /\ wake_sleep' = Dec(wake_sleep)
    /\ mute_left' = Dec(mute_left)
    /\ UNCHANGED <<confVars, laxVars, leaked, faults, interrupted, monitoring_active, main_pc, wake_pc,
                   should_stop, is_speaking, transcript, reply, response, messages, recent, history, appended, cycles,
                   outcome, kbd, heard, late_waits>>

\* --------------------------------------------------------------- harnesses

\* recorder.py run as a script: one recorder.record("test_audio.wav")
TestRecord ==
    /\ app = "recorder_test"
    /\ main_pc = "init"
    /\ EnterRecord("main")
    /\ main_pc' = "recording"
    /\ UNCHANGED <<confVars, laxVars, faults, ttsVars, main_sleep, wake_pc, wake_sleep, should_stop,
                   is_speaking, mute_left, transcript, reply, response, messages, recent, history, appended, cycles,
                   outcome, kbd, heard, late_waits>>

TestDone ==
    /\ app = "recorder_test"
    /\ main_pc = "recording"
    /\ CallOver("main")
    /\ main_pc' = IF rec["main"].pc = "returned" THEN "test_ok" ELSE "test_failed"
    /\ UNCHANGED <<confVars, laxVars, recVars, faults, ttsVars, main_sleep, wake_pc, wake_sleep,
                   should_stop, is_speaking, mute_left, transcript, reply, response, messages, recent, history, appended,
                   cycles, outcome, kbd, heard, late_waits>>

\* The texts and the callbacks a caller of speak_with_interruption passes
TestTexts == {[src |-> "llm", n |-> k] : k \in 0..MaxWords}

TestCallbacks == {NoCallback, {"none"}, {"none"} \cup Kinds, {"none", "raise"} \cup Kinds}

\* A caller of TTSClient.speak_with_interruption(text, audio_callback); it
\* keeps what the call before returned
TestSpeak ==
    /\ app = "tts_test"
    /\ main_pc = "init"
    /\ cycles < MaxCycles
    /\ cycles' = cycles + 1
    /\ \E text \in TestTexts, callback \in TestCallbacks : SpeakEnter(text, callback)
    /\ main_pc' = "speaking"
    /\ UNCHANGED <<confVars, laxVars, recVars, faults, main_sleep, wake_pc, wake_sleep, should_stop,
                   is_speaking, mute_left, transcript, reply, response, messages, recent,
                   history, appended, outcome, kbd, heard, late_waits>>

TestSpoken ==
    /\ app = "tts_test"
    /\ main_pc = "speaking"
    /\ tts.pc = "returned"
    /\ outcome' = [value |-> tts.result, at |-> "speaking"]
    /\ main_pc' = "init"
    /\ UNCHANGED <<confVars, laxVars, recVars, faults, ttsVars, main_sleep, wake_pc, wake_sleep,
                   should_stop, is_speaking, mute_left, transcript, reply, response, messages, recent, history, appended,
                   cycles, kbd, heard, late_waits>>

\* A caller of listen_for_wake_word as JARVISCore.run is one: it starts the
\* thread
WakeTestStart ==
    /\ app = "wake_test"
    /\ main_pc = "init"
    /\ main_pc' = "running"
    /\ wake_pc' = "while"
    /\ UNCHANGED <<confVars, laxVars, recVars, faults, ttsVars, main_sleep, wake_sleep, should_stop,
                   is_speaking, mute_left, transcript, reply, response, messages, recent, history, appended, cycles,
                   outcome, kbd, heard, late_waits>>

\* and at some time sets should_stop, as the handler of KeyboardInterrupt does
WakeTestStop ==
    /\ app = "wake_test"
    /\ main_pc = "running"
    /\ main_pc' = "exited"
    /\ should_stop' = TRUE
    /\ UNCHANGED <<confVars, laxVars, recVars, faults, ttsVars, main_sleep, wake_pc, wake_sleep,
                   is_speaking, mute_left, transcript, reply, response, messages, recent, history, appended, cycles,
                   outcome, kbd, heard, late_waits>>

\* The turns a caller of save_history stores
TestTurns ==
    {[role |-> "user", content |-> <<"a">>],
     [role |-> "user", content |-> <<"a", " ", "a">>],
     [role |-> "assistant", content |-> [src |-> "llm", n |-> 1]],
     [role |-> "assistant", content |-> [src |-> "llm", n |-> MaxWords]]}

\* A caller of JARVISCore.save_history(role, content)
HistSave ==
    /\ app = "history_test"
    /\ Len(appended) < MaxRows
    /\ \E turn \in TestTurns, served \in StoreServes :
          /\ history' = save_history(history, turn.role, turn.content, served)
          /\ appended' = IF served THEN Append(appended, turn) ELSE appended
    /\ UNCHANGED <<confVars, laxVars, recVars, faults, ttsVars, main_pc, main_sleep, wake_pc,
                   wake_sleep, should_stop, is_speaking, mute_left, transcript, reply,
                   response, messages, recent, cycles, outcome, kbd, heard, late_waits>>

\* A caller of JARVISCore.get_history(limit)
HistGet ==
    /\ app = "history_test"
    /\ \E limit \in 0 .. MaxRows + 1, served \in StoreServes :
          recent' = Recent(history, limit, served)
    /\ UNCHANGED <<confVars, laxVars, recVars, faults, ttsVars, main_pc, main_sleep, wake_pc,
                   wake_sleep, should_stop, is_speaking, mute_left, transcript, reply,
                   response, messages, history, appended, cycles, outcome, kbd, heard,
                   late_waits>>

\* ---------------------------------------------------------- specifications

Configs(frames, silences, max_times) ==
    [frame : frames, silence : silences, max_time : max_times]

\* Detectors of the recorder and of the TTS client: both read the same
\* WAKE_WORD_ENABLED and PORCUPINE_ACCESS_KEY, and import and create the same
\* engine.
InitDetectors ==
    \E flag, key_ok, create_ok \in BOOLEAN :
       /\ rec_detector = OwnDetector(flag, key_ok, create_ok)
       /\ tts_detector = OwnDetector(flag, key_ok, create_ok)

\* A new jarvis_mem.db, and a store that serves every operation
InitStore ==
    /\ store = "ok"
    /\ history = <<>>

\* An AudioRecorder made on a device that accepts every rate, with webrtcvad
\* installed
InitCapture ==
    /\ capabilities = FullDevice
    /\ vad = AudioRecorderNew(FullDevice, TRUE).vad
    /\ sample_rate = AudioRecorderNew(FullDevice, TRUE).sample_rate
    /\ channels = AudioRecorderNew(FullDevice, TRUE).channels

\* No call is under way, no thread is started; LaxmanaAI.__init__ has set
\* conversation_history = [] and knowledge_base = {}
InitLocals ==
    /\ conversation_history = <<>>
    /\ knowledge_base = [k \in {} |-> 0]
    /\ info = NoInfo
    /\ calls = 0
    /\ rec = [t \in Threads |-> IdleRec]
    /\ stream = [t \in Threads |-> NoStream]
    /\ leaked = 0
    /\ faults = 0
    /\ tts = IdleTTS
    /\ mon = IdleMonitor
    /\ interrupted = FALSE
    /\ monitoring_active = FALSE
    /\ main_pc = "init"
    /\ main_sleep = 0
    /\ wake_pc = "none"
    /\ wake_sleep = 0
    /\ should_stop = FALSE
    /\ is_speaking = FALSE
    /\ mute_left = 0
    /\ transcript = <<>>
    /\ reply = NoReply
    /\ response = NoText
    /\ messages = NoMessages
    /\ recent = NoRecent
    /\ appended = <<>>
    /\ cycles = 0
    /\ outcome = NoOutcome
    /\ kbd = FALSE
    /\ heard = NoneHeard
    /\ late_waits = 0

InitIdle ==
    /\ InitCapture
    /\ InitLocals

\* JARVISCore().run() or JarvisAssistant().run(), with VAD_FRAME_DURATION = 30,
\* a silence duration of one frame and a maximum recording time below one
Init ==
    /\ app \in {"core", "main"}
    /\ cfg \in Configs({30}, {30}, {10})
    /\ InitDetectors
    /\ InitStore
    /\ InitIdle

Next ==
    \/ RunStart
    \/ CycleStart
    \/ CycleRecorded
    \/ CycleTranscribe
    \/ CycleCheck
    \/ CycleLLM
    \/ CoreRespond
    \/ MainRespond
    \/ CycleSpoken
    \/ RunResume
    \/ KeyboardInterrupt
    \/ WakeLoop
    \/ WakeRecorded
    \/ WakeResume
    \/ Recorder("main")
    \/ Recorder("wake")
    \/ Playback
    \/ Tick

Spec == Init /\ [][Next]_vars

\* The steps of the main thread: the orchestrator, the capture it runs with
\* the device thread that feeds it, the playback with its monitor
MainThread ==
    \/ RunStart
    \/ CycleStart
    \/ CycleRecorded
    \/ CycleTranscribe
    \/ CycleCheck
    \/ CycleLLM
    \/ CoreRespond
    \/ MainRespond
    \/ CycleSpoken
    \/ RunResume
    \/ Recorder("main")
    \/ Playback

\* The steps of the thread of listen_for_wake_word and of its capture
WakeThread ==
    \/ WakeLoop
    \/ WakeRecorded
    \/ WakeResume
    \/ Recorder("wake")

\* The same program when time goes on, every thread that can run is
\* scheduled in the end, and every request to the network is answered or
\* fails in the end.  Ctrl+C may never come.
FairSpec ==
    /\ Spec
    /\ WF_vars(Tick)
    /\ WF_vars(MainThread)
    /\ WF_vars(WakeThread)

\* recorder.py as a script, over the frame durations webrtcvad accepts and
\* small silence and maximum durations
InitVAD ==
    /\ app = "recorder_test"
    /\ cfg \in Configs({10, 20, 30}, {10 * k : k \in 0..MaxSilence},
                        {10 * k : k \in 1..MaxRec})
    /\ \E key_ok, create_ok \in BOOLEAN :
          /\ rec_detector = OwnDetector(TRUE, key_ok, create_ok)
          /\ tts_detector = OwnDetector(TRUE, key_ok, create_ok)
    /\ InitStore
    /\ InitIdle

NextVAD ==
    \/ TestRecord
    \/ TestDone
    \/ Recorder("main")
    \/ Tick

SpecVAD == InitVAD /\ [][NextVAD]_vars

\* Devices that refuse 1 channel and accept 2 at one rate: the probing ends
\* with channels = 2
StereoDevices ==
    {[default |-> NoDefault, mono |-> {}, stereo |-> {rate}] : rate \in {16000, 48000}}

\* recorder.py as a script on such a device
InitStereo ==
    /\ app = "recorder_test"
    /\ cfg \in Configs({10, 20, 30}, {10 * k : k \in 0..MaxSilence},
                        {10 * k : k \in 1..MaxRec})
    /\ \E key_ok, create_ok \in BOOLEAN :
          /\ rec_detector = OwnDetector(TRUE, key_ok, create_ok)
          /\ tts_detector = OwnDetector(TRUE, key_ok, create_ok)
    /\ InitStore
    /\ \E caps \in StereoDevices :
          /\ capabilities = caps
          /\ vad = AudioRecorderNew(caps, TRUE).vad
          /\ sample_rate = AudioRecorderNew(caps, TRUE).sample_rate
          /\ channels = AudioRecorderNew(caps, TRUE).channels
    /\ InitLocals

SpecStereo == InitStereo /\ [][NextVAD]_vars

\* The same when time goes on and the thread of the call is scheduled in the
\* end
FairSpecVAD ==
    /\ SpecVAD
    /\ WF_vars(Tick)
    /\ WF_vars(Recorder("main"))

\* speak_with_interruption under any caller
InitTTS ==
    /\ app = "tts_test"
    /\ cfg \in Configs({30}, {30}, {10})
    /\ InitDetectors
    /\ InitStore
    /\ InitIdle

NextTTS ==
    \/ TestSpeak
    \/ TestSpoken
    \/ Playback
    \/ Tick

SpecTTS == InitTTS /\ [][NextTTS]_vars

\* listen_for_wake_word under a caller that sets should_stop at any time,
\* with a silence duration of one or two frames and a maximum recording time
\* below one frame or above three
InitWake ==
    /\ app = "wake_test"
    /\ cfg \in Configs({30}, {30, 60}, {10, 100})
    /\ InitDetectors
    /\ InitStore
    /\ InitIdle

NextWake ==
    \/ WakeTestStart
    \/ WakeTestStop
    \/ WakeThread
    \/ Tick

SpecWake == InitWake /\ [][NextWake]_vars

\* The rows an earlier run of JARVISCore stored: user and assistant turns in
\* turn, no two alike
OldTurns(k) ==
    [i \in 1 .. k |->
        IF i % 2 = 1
        THEN [role |-> "user", content |-> [j \in 1 .. i |-> "a"]]
        ELSE [role |-> "assistant", content |-> [src |-> "llm", n |-> i]]]

\* run_interaction_cycle called again and again, with jarvis_mem.db new or
\* left by an earlier run, and a store that serves, fails, or fails now and
\* then
InitCycle ==
    /\ app = "cycle_test"
    /\ cfg \in Configs({30}, {30}, {10})
    /\ InitDetectors
    /\ store \in Stores
    /\ history \in {<<>>, OldTurns(MaxOld)}
    /\ InitIdle

NextCycle ==
    \/ RunStart
    \/ CycleStart
    \/ CycleRecorded
    \/ CycleTranscribe
    \/ CycleCheck
    \/ CycleLLM
    \/ CoreRespond
    \/ CycleSpoken
    \/ RunResume
    \/ KeyboardInterrupt
    \/ Recorder("main")
    \/ Playback
    \/ Tick

SpecCycle == InitCycle /\ [][NextCycle]_vars

\* save_history and get_history under any caller, on a new jarvis_mem.db
InitHistory ==
    /\ app = "history_test"
    /\ cfg \in Configs({30}, {30}, {10})
    /\ InitDetectors
    /\ store \in Stores
    /\ history = <<>>
    /\ InitIdle

NextHistory ==
    \/ HistSave
    \/ HistGet

SpecHistory == InitHistory /\ [][NextHistory]_vars

\* No AudioRecorder is made yet
NoRecorder == [vad |-> FALSE, sample_rate |-> 0, channels |-> 0]

\* AudioRecorder() on the device: webrtcvad is installed or not, the probing
\* sets sample_rate and channels
AudioRecorderInit ==
    /\ app = "probe_test"
    /\ main_pc = "init"
    /\ \E vad_ok \in BOOLEAN :
          LET new == AudioRecorderNew(capabilities, vad_ok)
          IN  /\ vad' = new.vad
              /\ sample_rate' = new.sample_rate
              /\ channels' = new.channels
    /\ main_pc' = "ready"
    /\ UNCHANGED <<laxVars, app, cfg, rec_detector, tts_detector, store, capabilities, recVars, faults,
                   ttsVars, main_sleep, wake_pc, wake_sleep, should_stop, is_speaking,
                   mute_left, transcript, reply, response, messages, recent, history,
                   appended, cycles, outcome, kbd, heard, late_waits>>

\* `self.channels = 1  # Update to 1 channel for consistency` after the
\* second sd.rec and sd.wait have returned
RetryChannels(chans) == 1

\* AudioRecorder.record(output_file, use_vad), as its caller sees it: with
\* use_vad and self.vad the capture of _record_with_vad, otherwise sd.rec
\* for AUDIO_DURATION with self.channels and, when that raises, once more
\* with 1 channel; then the file is written, or an exception is raised again
RecordCall ==
    /\ app = "probe_test"
    /\ main_pc = "ready"
    /\ \E use_vad, write_ok \in BOOLEAN :
          LET done == IF write_ok THEN "saved" ELSE "raise"
          IN  IF use_vad /\ vad
              THEN \E vad_ok \in BOOLEAN :
                      /\ outcome' = [value |-> IF vad_ok THEN done ELSE "raise", at |-> "vad"]
                      /\ UNCHANGED channels
              ELSE \E first_ok, retry_ok \in BOOLEAN :
                      IF first_ok
                      THEN /\ outcome' = [value |-> done, at |-> "fixed"]
                           /\ UNCHANGED channels
                      ELSE IF retry_ok
                           THEN /\ outcome' = [value |-> done, at |-> "retry"]
                                /\ channels' = RetryChannels(channels)
                           ELSE /\ outcome' = [value |-> "raise", at |-> "retry"]
                                /\ UNCHANGED channels
    /\ UNCHANGED <<laxVars, app, cfg, rec_detector, tts_detector, store, capabilities, vad,
                   sample_rate, recVars, faults, ttsVars, main_pc, main_sleep, wake_pc,
                   wake_sleep, should_stop, is_speaking, mute_left, transcript, reply,
                   response, messages, recent, history, appended, cycles, kbd, heard,
                   late_waits>>

\* AudioRecorder() and then calls of record, on any device
InitProbe ==
    /\ app = "probe_test"
    /\ cfg \in Configs({30}, {30}, {10})
    /\ rec_detector = OwnDetector(FALSE, FALSE, FALSE)
    /\ tts_detector = OwnDetector(FALSE, FALSE, FALSE)
    /\ InitStore
    /\ capabilities \in Capabilities
    /\ vad = NoRecorder.vad
    /\ sample_rate = NoRecorder.sample_rate
    /\ channels = NoRecorder.channels
    /\ InitLocals

NextProbe ==
    \/ AudioRecorderInit
    \/ RecordCall

SpecProbe == InitProbe /\ [][NextProbe]_vars

\* A caller of LaxmanaAI.process_input(user_input)
LaxProcessInput ==
    /\ app = "laxmana_test"
    /\ calls < MaxCalls
    /\ calls' = calls + 1
    /\ \E user_input \in UserInputs, choice \in 1 .. 3 :
          conversation_history' =
             process_input(conversation_history, user_input,
                           laxmana_generate_response(user_input, choice))
    /\ UNCHANGED <<confVars, recVars, faults, ttsVars, coreVars, heard, late_waits,
                   knowledge_base, info>>

\* LaxmanaAI.update_knowledge(knowledge_data): dict.update gives the keys
\* of both, with the values of the argument where it has the key
LaxUpdateKnowledge ==
    /\ app = "laxmana_test"
    /\ \E knowledge_data \in KnowledgeData :
          knowledge_base' =
             [k \in (DOMAIN knowledge_base) \cup (DOMAIN knowledge_data) |->
                 IF k \in DOMAIN knowledge_data THEN knowledge_data[k]
                 ELSE knowledge_base[k]]
    /\ UNCHANGED <<confVars, recVars, faults, ttsVars, coreVars, heard, late_waits,
                   conversation_history, info, calls>>

\* LaxmanaAI.get_system_info() (name and version are constants)
LaxGetSystemInfo ==
    /\ app = "laxmana_test"
    /\ info' = [conversation_count |-> Len(conversation_history),
                knowledge_base_size |-> Cardinality(DOMAIN knowledge_base)]
    /\ UNCHANGED <<confVars, recVars, faults, ttsVars, coreVars, heard, late_waits,
                   conversation_history, knowledge_base, calls>>

\* A LaxmanaAI object and callers of its methods, as test_laxmana and main
\* of laxmana_core.py are
InitLax ==
    /\ app = "laxmana_test"
    /\ cfg \in Configs({30}, {30}, {10})
    /\ rec_detector = OwnDetector(FALSE, FALSE, FALSE)
    /\ tts_detector = OwnDetector(FALSE, FALSE, FALSE)
    /\ InitStore
    /\ InitIdle

NextLax ==
    \/ LaxProcessInput
    \/ LaxUpdateKnowledge
    \/ LaxGetSystemInfo

SpecLax == InitLax /\ [][NextLax]_vars

\* The two clients of the detector side by side: recorder.py as a script, or
\* speak_with_interruption under any caller
InitDetector == InitVAD \/ InitTTS

NextDetector == NextVAD \/ NextTTS

SpecDetector == InitDetector /\ [][NextDetector]_vars

\* ---------------------------------------------------------------- properties

RECURSIVE TailSilence(_)
\* the number of consecutive silence frames at the end of a segment
TailSilence(buf) ==
    IF buf = <<>> \/ buf[Len(buf)].kind # "silence"
    THEN 0
    ELSE 1 + TailSilence(SubSeq(buf, 1, Len(buf) - 1))

KindsOf(buf) == [i \in 1 .. Len(buf) |-> buf[i].kind]

Max(a, b) == IF a >= b THEN a ELSE b

\* a string of blanks, the empty one included
Blank(s) == \A i \in 1 .. Len(s) : s[i] = " "

\* JARVISCore is in Speaking and speak_with_interruption has returned
PlaybackReturned ==
    /\ app = "core"
    /\ main_pc = "speaking"
    /\ tts.pc = "returned"

\* ------------------------------------------------------------------ C1
\* C1: a playback run of JARVISCore during which the wake word was detected
\* only before the self-mute deadline (and at least once) returns True.
C1_MutedDetectionDiscarded ==
    (PlaybackReturned /\ heard.muted /\ ~heard.unmuted) => tts.result = "True"

\* the wake word was detected inside the window while the response was
\* spoken word by word, and the run returned True with every word emitted
C1_Witness ==
    /\ PlaybackReturned
    /\ DetectorOn(tts_detector)
    /\ heard.muted
    /\ ~heard.unmuted
    /\ tts.result = "True"
    /\ tts.emitted = Split(tts.text)

\* ------------------------------------------------------------------ C2
\* C2: a playback run of JARVISCore during which the wake word was detected
\* after the self-mute deadline and before the last word was emitted returns
\* False, and words of the response are left unemitted.
C2_UnmutedDetectionInterrupts ==
    (PlaybackReturned /\ heard.midway)
        => (tts.result = "False" /\ Len(tts.emitted) < tts.text.n)

\* ------------------------------------------------------------------ C3
\* C3: in speak_with_interruption a word is emitted only while the flag
\* interrupted is clear; a call that ends with the flag set returns False;
\* the call never ends by an exception; and when it has returned, the
\* monitoring flag is cleared and the monitor thread it started is over.
C3_FlagStopsPlayback ==
    /\ [][Len(tts'.emitted) > Len(tts.emitted) => ~interrupted]_vars
    /\ [](tts.pc = "returned" /\ interrupted => tts.result = "False")
    /\ [](tts.pc # "raised")
    /\ [](tts.pc = "returned" /\ DetectorOn(tts_detector)
             => ~monitoring_active /\ mon.pc = "exited")

\* a call stopped by the flag after some and before all of the words
C3_Witness ==
    /\ app = "tts_test"
    /\ tts.pc = "returned"
    /\ interrupted
    /\ tts.result = "False"
    /\ tts.emitted # <<>>
    /\ Len(tts.emitted) < tts.text.n
    /\ ~monitoring_active
    /\ mon.pc = "exited"

\* ------------------------------------------------------------------ C4
\* C4 as stated: with N = int(vad_silence_duration / frame duration), the
\* silence policy closes the segment exactly at the frame on which the run of
\* consecutive silence frames first reaches N: a segment closed by silence
\* ends in a run of exactly N silence frames, and the loop never goes on
\* past a frame at which the run has reached N.
C4_AsStated ==
    \A t \in Threads :
        LET N == cfg.silence \div cfg.frame IN
        /\ rec[t].stop = "silence" => TailSilence(rec[t].audio_buffer) = N
        /\ (rec[t].pc \in {"loop", "get"} /\ rec[t].audio_buffer # <<>>)
              => TailSilence(rec[t].audio_buffer) < N

\* C4 amended: the same with max(N, 1) for N: when N = 0 the segment is
\* closed at the first silence frame (a run of 1), since the counter is only
\* tested after a silence frame.
C4_SilenceStopExact ==
    \A t \in Threads :
        LET N == Max(cfg.silence \div cfg.frame, 1) IN
        /\ rec[t].stop = "silence" => TailSilence(rec[t].audio_buffer) = N
        /\ rec[t].pc \in {"loop", "get"} => TailSilence(rec[t].audio_buffer) < N

\* a segment closed by two silence frames that follow a speech frame
C4_Witness ==
    /\ cfg.silence \div cfg.frame = 2
    /\ rec["main"].stop = "silence"
    /\ KindsOf(rec["main"].audio_buffer) = <<"speech", "silence", "silence">>

\* ------------------------------------------------------------------ C5
\* C5: a stream of continuous speech frames never yields a segment of more
\* than vad_max_recording_time / frame duration frames, that is, of more
\* than vad_max_recording_time of audio.
C5_MaxDuration ==
    \A t \in Threads :
        (\A i \in 1 .. Len(rec[t].audio_buffer) : rec[t].audio_buffer[i].kind = "speech")
            => Len(rec[t].audio_buffer) * cfg.frame <= cfg.max_time

\* ------------------------------------------------------------------ C6
\* C6: in JARVISCore the input stream of the wake thread's record() and the
\* input stream of the main thread's record() are never open at the same
\* time.
C6_OneCapture ==
    app = "core" => ~(HoldsDevice(stream["main"]) /\ HoldsDevice(stream["wake"]))

\* ------------------------------------------------------------------ C7
\* C7: JARVISCore.run starts an interaction cycle only after the wake word
\* was detected while the loop was between two cycles.
C7_WakeGated ==
    [][app = "core" /\ cycles' = cycles + 1 => heard.armed]_vars

\* ------------------------------------------------------------------ C8
\* C8: when a _record_with_vad call is over, by return or by exception, the
\* input stream it created has been stopped exactly once and closed exactly
\* once.
C8_StreamReleased ==
    \A t \in Threads :
        (CallOver(t) /\ stream[t].state # "none")
            => stream[t].stops = 1 /\ stream[t].closes = 1

\* ------------------------------------------------------------------ C9
\* C9: in both orchestrators, when the transcript is empty or blank the
\* cycle returns False at once, with no request to the generation
\* collaborator, no row added to the history and no playback; and the
\* generation and playback steps are only reached with a transcript that is
\* not blank.
C9_NoSpeechEndsCycle ==
    /\ [][(main_pc = "check" /\ main_pc' # "check" /\ Blank(transcript))
            => /\ outcome' = [value |-> "False", at |-> "check"]
               /\ main_pc' = "sleep"
               /\ reply' = NoReply
               /\ history' = history
               /\ UNCHANGED ttsVars]_vars
    /\ [](main_pc \in {"generate", "respond", "speaking"} => ~Blank(transcript))

\* a cycle of JARVISCore that returned False at the test of the transcript
C9_Witness ==
    /\ app = "core"
    /\ main_pc = "sleep"
    /\ outcome = [value |-> "False", at |-> "check"]
    /\ history = <<>>
    /\ tts = IdleTTS

\* ------------------------------------------------------------------ C10
\* C10: in a cycle of JARVISCore whose generation request raised, the cycle
\* goes on to Speaking, the response spoken is the fixed text of
\* get_ai_response, and, unless Ctrl+C ends the program, the cycle returns
\* True.
C10_GenerationFailureFallback ==
    /\ [][(app = "core" /\ reply.kind = "raise" /\ main_pc = "respond"
             /\ main_pc' # "respond") => main_pc' = "speaking"]_vars
    /\ [](app = "core" /\ reply.kind = "raise" /\ main_pc = "speaking"
             => response = NeuralErrorText /\ tts.text = NeuralErrorText /\ is_speaking)
    /\ [][(app = "core" /\ reply.kind = "raise" /\ main_pc = "speaking"
             /\ main_pc' # "speaking" /\ ~kbd)
            => outcome' = [value |-> "True", at |-> "speaking"]]_vars

\* a cycle of JARVISCore that spoke the fixed text and returned True
C10_Witness ==
    /\ app = "core"
    /\ main_pc = "sleep"
    /\ outcome = [value |-> "True", at |-> "speaking"]
    /\ history # <<>>
    /\ history[Len(history)] = [role |-> "assistant", content |-> NeuralErrorText]

\* ------------------------------------------------------------------ C11
\* a failure is ending the cycle the main thread is in: the capture raised,
\* or the transcription request is failing, or the generation request raised
CycleFailing ==
    \/ main_pc = "recording" /\ rec["main"].pc = "raised" /\ ~kbd
    \/ main_pc = "transcribe"
    \/ reply.kind = "raise"

\* run_interaction_cycle / run_once returns in this step
CycleReturns == main_pc # "sleep" /\ main_pc' = "sleep"

C12_StopJoinsAll ==
    (app = "core" /\ main_pc = "exited")
        => /\ wake_pc = "exited"
           /\ mon.pc \in {"none", "exited"}
           /\ \A t \in Threads : ~HoldsDevice(stream[t])
           /\ leaked = 0

\* ------------------------------------------------------------------ C13
\* C13: once should_stop is set, the capture the thread of
\* listen_for_wake_word is running ends at most one more wait on the frame
\* queue, and the thread enters no further capture.
C13_StopObserved ==
    /\ [](late_waits <= 1)
    /\ [][should_stop => ~(wake_pc # "recording" /\ wake_pc' = "recording")]_vars

\* ------------------------------------------------------------------ C14
\* C14: all through _record_with_vad the silence counter is the number of
\* consecutive silence frames at the end of the frames processed so far; a
\* speech frame sets it to zero and a silence frame adds exactly one to it.
C14_SilenceCounter ==
    /\ [](\A t \in Threads : rec[t].silence_frames = TailSilence(rec[t].audio_buffer))
    /\ [][\A t \in Threads :
             Len(rec'[t].audio_buffer) = Len(rec[t].audio_buffer) + 1
                => rec'[t].silence_frames =
                      IF rec'[t].audio_buffer[Len(rec'[t].audio_buffer)].kind = "silence"
                      THEN rec[t].silence_frames + 1
                      ELSE 0]_vars

\* a silence frame, a speech frame and a silence frame were processed, the
\* counter is back at one and the loop goes on
C14_Witness ==
    /\ max_silence_frames = 2
    /\ rec["main"].pc \in {"loop", "get"}
    /\ KindsOf(rec["main"].audio_buffer) = <<"silence", "speech", "silence">>
    /\ rec["main"].silence_frames = 1

\* ------------------------------------------------------------------ C15
\* C15: every frame the loop of _record_with_vad takes from the queue is
\* appended to the buffer, whatever it is classified as and whatever stop it
\* triggers.
C15_EveryFrameKept ==
    [][\A t \in Threads :
          (rec[t].pc = "get" /\ Len(rec'[t].audio_queue) < Len(rec[t].audio_queue))
             => rec'[t].audio_buffer =
                   Append(rec[t].audio_buffer, Head(rec[t].audio_queue))]_vars

\* ------------------------------------------------------------------ C16
\* the frames of a call in the order the loop meets them: the buffer, then
\* the queue
Captured(t) == rec[t].audio_buffer \o rec[t].audio_queue

SameCall(t) == rec[t].pc # "idle" /\ rec'[t].pc \notin {"idle", "start"}

\* C17: during a call of _record_with_vad the buffer only grows, a frame at
\* a time at its end; the loop is left by exactly one of: the silence
\* counter reached its limit on a silence frame, the time elapsed is above
\* the maximum, the detector (enabled) reported the wake word on the frame
\* taken; once the loop is left the buffer does not change, and a call that
\* returns returns the buffer as it was then (a call ended by an exception
\* returns nothing).
C17_SegmentGrowsUntilClosed ==
    /\ [][\A t \in Threads : SameCall(t) =>
             \/ rec'[t].audio_buffer = rec[t].audio_buffer
             \/ /\ Len(rec'[t].audio_buffer) = Len(rec[t].audio_buffer) + 1
                /\ SubSeq(rec'[t].audio_buffer, 1, Len(rec[t].audio_buffer))
                      = rec[t].audio_buffer]_vars
    /\ [][\A t \in Threads : (SameCall(t) /\ rec[t].stop # "none") =>
             /\ rec'[t].audio_buffer = rec[t].audio_buffer
             /\ rec'[t].stop = rec[t].stop]_vars
    /\ [][\A t \in Threads : (SameCall(t) /\ rec[t].stop = "none") =>
             /\ rec'[t].stop = "silence" =>
                   /\ rec'[t].silence_frames >= max_silence_frames
                   /\ Head(rec[t].audio_queue).kind = "silence"
             /\ rec'[t].stop = "max" => rec[t].elapsed > cfg.max_time
             /\ rec'[t].stop = "wake" =>
                   /\ DetectorOn(rec_detector)
                   /\ Head(rec[t].audio_queue).kind = "wake"]_vars
    /\ [](\A t \in Threads : rec[t].pc \in {"convert", "returned"} =>
             rec[t].stop \in {"silence", "max", "wake"})
    /\ [](\A t \in Threads : rec[t].pc = "returned" =>
             rec[t].result.samples =
                IF rec[t].audio_buffer = <<>> THEN 1
                ELSE Len(rec[t].audio_buffer) * frame_size)

\* a call closed by the wake word after two frames returned the two frames
C17_Witness ==
    /\ rec["main"].pc = "returned"
    /\ rec["main"].stop = "wake"
    /\ DetectorOn(rec_detector)
    /\ Len(rec["main"].audio_buffer) = 2
    /\ rec["main"].result.samples = 2 * frame_size

\* ------------------------------------------------------------------ C18
\* the stream of the call is started and its device never calls back
Dead(t) == stream[t].state = "active" /\ ~stream[t].alive

\* C18: when the device never delivers a frame, _record_with_vad ends; when
\* that is the only fault it does not raise; and what it returns then is the
\* array of one sample, shorter than a frame, while every call that kept a
\* frame returns at least a frame of samples.
C18_DeadDeviceReturnsEmpty ==
    /\ Dead("main") ~> CallOver("main")
    /\ [](\A t \in Threads : (~stream[t].alive /\ faults = 1) => rec[t].pc # "raised")
    /\ [](\A t \in Threads : (rec[t].pc = "returned" /\ ~stream[t].alive) =>
             /\ rec[t].audio_buffer = <<>>
             /\ rec[t].result.samples >= 1
             /\ rec[t].result.samples < frame_size)
    /\ [](\A t \in Threads : (rec[t].pc = "returned" /\ rec[t].audio_buffer # <<>>) =>
             rec[t].result.samples >= frame_size)

\* the call on a dead device was closed by the maximum time and returned the
\* array of one sample
C18_Witness ==
    /\ rec["main"].pc = "returned"
    /\ ~stream["main"].alive
    /\ stream["main"].produced = 0
    /\ rec["main"].stop = "max"
    /\ rec["main"].result = [samples |-> 1]

\* ------------------------------------------------------------------ C19
\* C19: when record() returns from a capture that kept no frame, the cycle
\* ends there: the transcription collaborator is not called.
C19_EmptySegmentSkipped ==
    [][(main_pc = "recording" /\ main_pc' # "recording"
          /\ rec["main"].pc = "returned" /\ rec["main"].audio_buffer = <<>>)
         => main_pc' \notin {"transcribe", "check", "generate", "respond", "speaking"}]_vars

\* ------------------------------------------------------------------ C20
\* C20: on a frame that makes the engine raise, detect_wake_word returns
\* False and raises nothing; the loop of _record_with_vad that took such a
\* frame goes on with it as with any frame (it is classified, appended, and
\* no stop is set); the monitor of a playback whose callback does not raise
\* never ends a turn in its except clause, and speak_with_interruption does
\* not end by an exception.
C20_DetectorFaultSwallowed ==
    /\ [](\A det \in {rec_detector, tts_detector} :
             ~detect_wake_word(det, "glitch") /\ ~detect_wake_word_raises(det, "glitch"))
    /\ [][\A t \in Threads :
             (/\ rec[t].pc = "get"
              /\ Len(rec'[t].audio_queue) < Len(rec[t].audio_queue)
              /\ Head(rec[t].audio_queue).kind = "glitch")
                => /\ rec'[t].pc = "loop"
                   /\ rec'[t].stop = "none"
                   /\ ~rec'[t].exc
                   /\ rec'[t].audio_buffer =
                         Append(rec[t].audio_buffer, Head(rec[t].audio_queue))]_vars
    /\ [](mon.callback = {"none"} \cup Kinds => mon.left # MonitorRetry)
    /\ [](app = "tts_test" => tts.pc # "raised")

\* with the detector enabled, a frame on which the engine raised is in the
\* segment and the loop is waiting for the next frame
C20_Witness ==
    /\ DetectorOn(rec_detector)
    /\ rec["main"].pc = "get"
    /\ rec["main"].stop = "none"
    /\ \E i \in 1 .. Len(rec["main"].audio_buffer) :
          rec["main"].audio_buffer[i].kind = "glitch"

\* ------------------------------------------------------------------ C21
\* C21: a frame on which vad.is_speech raises is counted as a silence frame
\* (it is appended, one is added to the silence counter, and the loop goes on
\* or closes the segment by the silence rule), and no call of
\* _record_with_vad ends because of such a frame.
C21_VadFaultSwallowed ==
    /\ [][\A t \in Threads :
             (/\ rec[t].pc = "get"
              /\ Len(rec'[t].audio_queue) < Len(rec[t].audio_queue)
              /\ Head(rec[t].audio_queue).kind = "fault")
                => /\ rec'[t].pc \in {"loop", "stop"}
                   /\ ~rec'[t].exc
                   /\ rec'[t].stop \in {"none", "silence"}
                   /\ rec'[t].silence_frames = rec[t].silence_frames + 1
                   /\ rec'[t].audio_buffer =
                         Append(rec[t].audio_buffer, Head(rec[t].audio_queue))]_vars
    /\ [](\A t \in Threads : rec[t].stop # "error")

\* ------------------------------------------------------------------ C22
\* C22: whatever disables the detector (flag off, access key missing or the
\* placeholder, import or creation of the engine failed), the constructed
\* detector has enabled = False and no engine, and detect_wake_word answers
\* False on every frame; in every state a detector with enabled = True has
\* its engine; and with the detector disabled no capture is closed by the
\* wake word and no playback is interrupted.
C22_DisabledMode ==
    /\ \A flag, key_ok, create_ok \in BOOLEAN :
          LET det == WakeWordDetectorInit(flag, key_ok, create_ok) IN
          /\ det.enabled => det.porcupine
          /\ ~(flag /\ key_ok /\ create_ok)
                => /\ ~det.enabled
                   /\ \A k \in Kinds : /\ ~detect_wake_word(det, k)
                                       /\ ~detect_wake_word_raises(det, k)
    /\ \A det \in {rec_detector, tts_detector} :
          /\ det.enabled => det.porcupine
          /\ ~det.enabled => \A k \in Kinds : ~detect_wake_word(det, k)
    /\ ~DetectorOn(rec_detector) => \A t \in Threads : rec[t].stop # "wake"
    /\ ~DetectorOn(tts_detector) => ~interrupted /\ mon.pc = "none"

\* the detector of the recorder was constructed and is disabled, and a frame
\* that carries the wake word went into the segment as speech
C22_Witness ==
    /\ rec_detector.present
    /\ ~rec_detector.enabled
    /\ rec["main"].pc \in {"loop", "get"}
    /\ \E i \in 1 .. Len(rec["main"].audio_buffer) :
          rec["main"].audio_buffer[i].kind = "wake"

\* ------------------------------------------------------------------ C23
\* C23: every entry of JARVISCore to Speaking sets the time left to the
\* self-mute deadline to 0.5 s, in the step that calls
\* speak_with_interruption and before any word of that call is emitted; and
\* apart from that the time left changes only as the clock moves, by what the
\* clock moves, that is, the deadline itself is never set again.
C23_SelfMuteDeadline ==
    /\ [][(app = "core" /\ main_pc # "speaking" /\ main_pc' = "speaking")
            => /\ mute_left' = SelfMute
               /\ is_speaking'
               /\ tts.pc = "idle"
               /\ tts'.text = response']_vars
    /\ [][mute_left' # mute_left
            => \/ app = "core" /\ main_pc = "respond" /\ main_pc' = "speaking"
               \/ Tick /\ mute_left' = Dec(mute_left)]_vars
    /\ [](app = "main" => mute_left = 0)

\* the second cycle of JARVISCore is in Speaking, words were emitted and the
\* deadline set on this entry is still ahead
C23_Witness ==
    /\ app = "core"
    /\ cycles = 2
    /\ main_pc = "speaking"
    /\ tts.emitted # <<>>
    /\ Len(tts.emitted) < tts.text.n
    /\ mute_left > 0
    /\ mute_left < SelfMute

\* ------------------------------------------------------------------ C24
\* two turns are the same: the same role and, then, the same content
SameTurn(a, b) == a.role = b.role /\ a.content = b.content

\* two lists of turns are the same
SameTurns(s, t) ==
    /\ Len(s) = Len(t)
    /\ \A i \in 1 .. Len(s) : SameTurn(s[i], t[i])

\* two answers of get_history are the same
SameRecent(a, b) ==
    /\ a.limit = b.limit
    /\ a.served = b.served
    /\ SameTurns(a.rows, b.rows)

\* the last n turns of a log, or all of them when there are fewer, oldest
\* first
LastTurns(log, n) ==
    SubSeq(log, Len(log) - (IF n < Len(log) THEN n ELSE Len(log)) + 1, Len(log))

\* C24: on a new database the table holds exactly the turns whose
\* save_history was served, in the order of the calls; and a call
\* get_history(N) that is served answers the last min(N, N') of these N'
\* turns, oldest first.
C24_HistoryRoundTrip ==
    /\ [](app = "history_test" => SameTurns(history, appended))
    /\ [][(/\ app = "history_test"
           /\ SameTurns(history', history)
           /\ ~SameRecent(recent', recent)
           /\ recent'.served)
            => /\ Len(recent'.rows) =
                     (IF recent'.limit < Len(appended) THEN recent'.limit
                      ELSE Len(appended))
               /\ SameTurns(recent'.rows, LastTurns(appended, recent'.limit))]_vars

\* four turns were stored, the first and the last by the assistant, and
\* get_history(2) answered the third and the fourth, a user turn and an
\* assistant turn
C24_Witness ==
    /\ app = "history_test"
    /\ Len(appended) = 4
    /\ appended[1].role = "assistant"
    /\ appended[3].role = "user"
    /\ appended[4].role = "assistant"
    /\ recent.served
    /\ recent.limit = 2
    /\ SameTurns(recent.rows, <<appended[3], appended[4]>>)

\* ------------------------------------------------------------------ C25
\* the main thread goes from the generation to Speaking in this step
Generated == main_pc = "respond" /\ main_pc' = "speaking"

\* the user turn of the cycle
UserTurn == [role |-> "user", content |-> transcript]

\* the assistant turn of the cycle: the response that is spoken
AssistantTurn == [role |-> "assistant", content |-> tts'.text]

\* C25: the table changes only in the step in which generate_response
\* returns, and only at its end; a cycle that ends before, at the test of the
\* transcript, by a failure or by Ctrl+C, adds nothing.  With a store that
\* serves, that step adds exactly two rows, the user turn with the transcript
\* and after it the assistant turn with the response that is spoken; with a
\* store that does not serve a save_history, the turn of that call is left
\* out and the other rows are as before.
C25_TurnsAppended ==
    /\ [][~SameTurns(history', history) => Generated]_vars
    /\ [][Len(history') >= Len(history)
            /\ SameTurns(SubSeq(history', 1, Len(history)), history)]_vars
    /\ [][Generated =>
            /\ response' = tts'.text
            /\ store = "ok" =>
                  SameTurns(history', history \o <<UserTurn, AssistantTurn>>)
            /\ store = "down" => SameTurns(history', history)
            /\ \/ SameTurns(history', history \o <<UserTurn, AssistantTurn>>)
               \/ SameTurns(history', history \o <<UserTurn>>)
               \/ SameTurns(history', history \o <<AssistantTurn>>)
               \/ SameTurns(history', history)
            /\ SameTurns(SubSeq(history', Len(history) + 1, Len(history')),
                         SubSeq(appended', Len(appended) + 1, Len(appended')))]_vars

\* after the eight turns of an earlier run, two cycles have stored their
\* turns: user, assistant, user, assistant, the last one being spoken
C25_Witness ==
    /\ app = "cycle_test"
    /\ store = "ok"
    /\ main_pc = "speaking"
    /\ cycles = 2
    /\ Len(history) = MaxOld + 4
    /\ SameTurns(SubSeq(history, 1, MaxOld), OldTurns(MaxOld))
    /\ history[MaxOld + 1].role = "user"
    /\ history[MaxOld + 2].role = "assistant"
    /\ history[MaxOld + 3] = [role |-> "user", content |-> transcript]
    /\ history[MaxOld + 4] = [role |-> "assistant", content |-> tts.text]

\* ------------------------------------------------------------------ C26
\* C26: whatever the store does, save_history and get_history raise
\* nothing; a get_history the store did not serve answers the empty list, and
\* the request is sent all the same, with the system prompt and the
\* transcript; the response spoken is what the generation gave (or the fixed
\* text for a failed request), never the fixed text of a failure inside
\* generate_response; a cycle that has spoken returns True; and run is
\* reached and cycles are run with a store that failed from init_db on,
\* whose table is never written.
C26_StoreFailureContained ==
    /\ [](\A served \in BOOLEAN :
             ~save_history_raises(served) /\ ~get_history_raises(served))
    /\ [](~recent.served => recent.rows = <<>>)
    /\ [][(main_pc = "check" /\ main_pc' # "check" /\ ~Blank(transcript))
            => /\ main_pc' = "generate"
               /\ Len(messages') = 2 + Len(recent'.rows)
               /\ messages'[Len(messages')] = [role |-> "user", content |-> transcript]]_vars
    /\ [][Generated
            => /\ response' = get_ai_response(GroqGenerate(reply))
               /\ tts'.text = response'
               /\ tts'.pc \in {"word", "returned"}]_vars
    /\ [](response # TroubleText)
    /\ [][(main_pc = "speaking" /\ main_pc' = "sleep") => outcome'.value = "True"]_vars
    /\ [](store = "down" => appended = <<>> /\ ~recent.served)
    /\ [](main_pc # "raised")

\* with a store that fails every call, the second cycle got no history, sent
\* the request, and has spoken every word of the generated response; the
\* table is as the earlier run left it
C26_Witness ==
    /\ app = "cycle_test"
    /\ store = "down"
    /\ cycles = 2
    /\ main_pc = "speaking"
    /\ tts.pc = "returned"
    /\ reply.kind = "content"
    /\ response = [src |-> "llm", n |-> MaxWords]
    /\ Len(tts.emitted) = MaxWords
    /\ ~recent.served
    /\ Len(messages) = 2
    /\ Len(history) = MaxOld


\* ------------------------------------------------------------------ C27
\* the number of messages of a role in a list of messages
CountRole(ms, role) == Cardinality({i \in 1 .. Len(ms) : ms[i].role = role})

\* the request of get_ai_response is built and not yet answered, or answered
\* and not yet stored
RequestBuilt == app = "cycle_test" /\ main_pc \in {"generate", "respond"}

\* C27: the request JARVISCore.get_ai_response sends is the system prompt,
\* then the rows get_history(limit=6) answered, which for a served call are
\* the last min(6, N) of the N stored turns, oldest first, then the
\* transcript of the cycle as the last, user, message; the request holds one
\* user message more than the rows do, and the table is not written between
\* the cycle's start and the step in which the response is returned.
C27_RequestContext ==
    /\ [](RequestBuilt =>
            /\ Len(messages) = Len(recent.rows) + 2
            /\ Len(recent.rows) <= HistoryLimit
            /\ recent.limit = HistoryLimit
            /\ messages[1].role = "system"
            /\ messages[1].content = SysPrompt
            /\ SameTurns(SubSeq(messages, 2, Len(messages) - 1), recent.rows)
            /\ SameTurn(messages[Len(messages)], [role |-> "user", content |-> transcript])
            /\ CountRole(messages, "system") = 1
            /\ CountRole(messages, "user") = CountRole(recent.rows, "user") + 1
            /\ recent.served => SameTurns(recent.rows, LastTurns(history, HistoryLimit))
            /\ ~recent.served => recent.rows = <<>>)
    /\ [][(app = "cycle_test" /\ ~Generated) => SameTurns(history', history)]_vars
    /\ [][(app = "cycle_test" /\ Generated /\ store = "ok") =>
            /\ Len(history') = Len(history) + 2
            /\ SameTurn(history'[Len(history) + 1], messages[Len(messages)])]_vars

\* the second cycle on a table that held eight turns: the request carries
\* the system prompt, the last six of the ten stored turns (the last two
\* being those of the first cycle) and the transcript
C27_Witness ==
    /\ app = "cycle_test"
    /\ store = "ok"
    /\ cycles = 2
    /\ main_pc = "generate"
    /\ Len(history) = MaxOld + 2
    /\ Len(messages) = HistoryLimit + 2
    /\ SameTurn(messages[2], history[MaxOld - 3])
    /\ SameTurn(messages[HistoryLimit + 1], history[MaxOld + 2])
    /\ messages[HistoryLimit + 1].role = "assistant"
    /\ messages[HistoryLimit + 2].role = "user"
    /\ messages[HistoryLimit + 2].content = transcript

\* ------------------------------------------------------------------ C28
\* the recorder is made: the probing has returned
Probed == app = "probe_test" /\ main_pc = "ready"

\* the recorder is made and record has not been called
JustProbed == Probed /\ outcome = NoOutcome

\* the device accepts the rate with 1 channel or with 2
Supports(caps, rate) ==
    check_input_settings(caps, rate, 1) \/ check_input_settings(caps, rate, 2)

\* C28 as stated: on a device that does not accept the preferred rate and
\* accepts 48000 Hz, the probing selects 48000 Hz.
C28_Selects48000 ==
    (Probed /\ ~Supports(capabilities, SampleRate) /\ Supports(capabilities, 48000))
        => sample_rate = 48000

\* C28: on a device that does not accept the preferred rate, accepts
\* 48000 Hz, and accepts none of the rates tried between the two (its
\* default rate when the query named one that is not in the list, and
\* 44100 Hz), the probing selects 48000 Hz, with 1 channel when the device
\* accepts 48000 Hz with 1 channel and with 2 channels otherwise.
C28_Selects48000IfFirst ==
    (/\ Probed
     /\ ~Supports(capabilities, SampleRate)
     /\ Supports(capabilities, 48000)
     /\ ~Supports(capabilities, 44100)
     /\ capabilities.default # NoDefault => ~Supports(capabilities, capabilities.default)
                                            \/ capabilities.default = 48000)
        => /\ sample_rate = 48000
           /\ JustProbed =>
                 channels = IF check_input_settings(capabilities, 48000, 1) THEN 1 ELSE 2

\* a device whose default is 96000 Hz and that accepts only 48000 Hz, and
\* that with 2 channels: 16000, 96000 and 44100 were refused, 48000 is used
C28_Witness ==
    /\ JustProbed
    /\ capabilities = [default |-> 96000, mono |-> {}, stereo |-> {48000}]
    /\ sample_rate = 48000
    /\ channels = 2

\* ------------------------------------------------------------------ C29
\* the order of the claim: the default of the device always second
ClaimedOrder(caps) ==
    <<SampleRate>> \o (IF caps.default = NoDefault THEN <<>> ELSE <<caps.default>>)
        \o <<44100, 48000, 22050, 32000, 8000>>

\* the first rate of the order the device accepts with 1 channel or, failing
\* that, with 2, and that channel count; 44100 Hz and 1 channel when it
\* accepts none
FirstValid(order, caps) ==
    LET valid == {i \in 1 .. Len(order) : Supports(caps, order[i])}
    IN  IF valid = {}
        THEN [rate |-> 44100, channels |-> 1]
        ELSE LET first == CHOOSE i \in valid : \A j \in valid : i <= j
             IN  [rate |-> order[first],
                  channels |-> IF check_input_settings(caps, order[first], 1) THEN 1 ELSE 2]

\* C29: for every device, the probing selects the first rate, in the order
\* [preferred, device default, 44100, 48000, 22050, 32000, 8000], that the
\* validator accepts with 1 channel or, failing that, with 2 channels, and
\* self.channels is that channel count when __init__ returns; when no
\* combination validates the result is 44100 Hz with 1 channel.
C29_FirstInClaimedOrder ==
    /\ Probed => sample_rate = FirstValid(ClaimedOrder(capabilities), capabilities).rate
    /\ JustProbed => channels = FirstValid(ClaimedOrder(capabilities), capabilities).channels

\* ------------------------------------------------------------------ C30
\* C30: once AudioRecorder.__init__ has returned, no call of record, on the
\* VAD path or on the fixed-duration path, returning or raising, changes
\* sample_rate or channels.
C30_CaptureConfigFrozen ==
    [][Probed => sample_rate' = sample_rate /\ channels' = channels]_vars

\* ------------------------------------------------------------------ C31
\* C31: the queue between audio_callback and the loop of _record_with_vad
\* has a fixed capacity that the device cannot exceed however slowly the
\* loop turns: the number of queued frames stays below the lead the device
\* is given over the loop (MaxQueue frames).
C31_QueueBounded ==
    \A t \in Threads : Len(rec[t].audio_queue) < MaxQueue

\* ------------------------------------------------------------------ C32
\* the words printed so far are the first words of the text, in order
EmittedIsPrefix ==
    /\ Len(tts.emitted) <= tts.text.n
    /\ tts.emitted = SubSeq(Split(tts.text), 1, Len(tts.emitted))

\* C32: speak_with_interruption returns True exactly when every word of the
\* text was emitted, in order and once each, and False exactly when the
\* playback stopped before the last word was emitted; the words emitted are
\* always a prefix of the text.
C32_ResultMatchesEmitted ==
    /\ EmittedIsPrefix
    /\ tts.pc = "returned" =>
          /\ tts.result = "True" <=> tts.emitted = Split(tts.text)
          /\ tts.result = "False" <=> Len(tts.emitted) < tts.text.n

\* ------------------------------------------------------------------ C33
\* C33: when speak_with_interruption is over, by return or by exception, no
\* monitor thread is alive: the one it started, if any, has left
\* _monitor_wake_word.
C33_MonitorOver ==
    tts.pc \in {"returned", "raised"} => mon.pc \in {"none", "exited"}

\* ------------------------------------------------------------------ C34
\* a caller enters speak_with_interruption in this step
RunStarts == app = "tts_test" /\ cycles' = cycles + 1

\* C34: a call of speak_with_interruption with an enabled detector begins
\* with the flag interrupted cleared, a new monitor and no monitor of an
\* earlier call alive; the flag is set only by the monitor, in a poll made
\* while the call that started it is under way; and a call returns False
\* only with the flag set, that is, after such a poll of its own monitor.
C34_NoCarryOver ==
    /\ [][(RunStarts /\ DetectorOn(tts_detector))
            => /\ ~interrupted'
               /\ mon.pc \in {"none", "exited"}
               /\ mon'.pc = "begin"]_vars
    /\ [][(interrupted' /\ ~interrupted)
            => /\ mon.pc = "poll"
               /\ tts.pc \in {"word", "pause", "finally", "join"}]_vars
    /\ [][(RunStarts /\ ~DetectorOn(tts_detector))
            => tts'.result = "True" /\ mon' = mon]_vars
    /\ [](tts.pc = "returned" /\ tts.result = "False"
            => interrupted /\ DetectorOn(tts_detector))
    /\ [](tts.pc \in {"word", "pause"} /\ mon.pc \in {"begin", "check", "sleep"}
            /\ mon.callback = {"none"} => ~interrupted)

\* the first call was interrupted and returned False; the second, with a
\* callback that can return any frame, spoke every word and returned True
C34_Witness ==
    /\ app = "tts_test"
    /\ cycles = 2
    /\ outcome = [value |-> "False", at |-> "speaking"]
    /\ tts.pc = "returned"
    /\ tts.result = "True"
    /\ Len(tts.emitted) = MaxWords
    /\ mon.callback = {"none"} \cup Kinds
    /\ mon.pc = "exited"
    /\ ~interrupted

\* ------------------------------------------------------------------ C35
\* the wake_word_detector of the TTS client is None or is not enabled
TtsDetectorOff == ~tts_detector.present \/ ~tts_detector.enabled

\* C35: a detector made without a configured access key is not enabled; and
\* with the detector of the TTS client absent or not enabled there is never
\* a monitor thread, the monitoring flags stay clear, the callback is never
\* called, and every call of speak_with_interruption emits the whole text
\* and returns True in the step in which it is entered.
C35_NoDetectorPlainSpeech ==
    /\ [](\A flag, create_ok \in BOOLEAN :
             /\ ~OwnDetector(flag, FALSE, create_ok).enabled
             /\ ~OwnDetector(FALSE, TRUE, create_ok).present)
    /\ [](TtsDetectorOff => mon = IdleMonitor /\ ~monitoring_active /\ ~interrupted)
    /\ [](TtsDetectorOff => tts.pc \in {"idle", "returned"})
    /\ [][(RunStarts /\ TtsDetectorOff)
            => /\ tts'.pc = "returned"
               /\ tts'.result = "True"
               /\ tts'.emitted = Split(tts'.text)
               /\ Len(tts'.emitted) = tts'.text.n]_vars
    /\ [](TtsDetectorOff /\ tts.pc = "returned"
            => tts.result = "True" /\ tts.emitted = Split(tts.text))

\* the detector was made with the placeholder key: the second call has
\* emitted its two words and returned True, as the first did, and no monitor
\* was ever started
C35_Witness ==
    /\ app = "tts_test"
    /\ tts_detector.present
    /\ ~tts_detector.enabled
    /\ cycles = 2
    /\ outcome = [value |-> "True", at |-> "speaking"]
    /\ tts.pc = "returned"
    /\ tts.result = "True"
    /\ tts.emitted = <<1, 2>>
    /\ mon = IdleMonitor
    /\ ~monitoring_active

\* ------------------------------------------------------------------ C36
\* C36: in JARVISCore is_speaking is True only while run_interaction_cycle
\* is inside its call of speak_with_interruption; before a cycle, during
\* capture, transcription and generation, and after a cycle has ended in any
\* way, it is False.
C36_SpeakingOnlyInPlayback ==
    (IsCore /\ is_speaking) => main_pc = "speaking"

\* ------------------------------------------------------------------ C37
\* C37: the input stream _record_with_vad opens has the channel count the
\* probing selected, and with either channel count the conversion of the
\* captured frames returns, without an exception, an array that holds every
\* captured sample.
C37_NegotiatedChannelsUsed ==
    \A t \in Threads :
       /\ stream[t].state # "none" => stream[t].channels = channels
       /\ rec[t].pc = "convert" => ~ReshapeRaises(rec[t].audio_buffer)
       /\ (rec[t].pc = "returned" /\ rec[t].audio_buffer # <<>>)
             => rec[t].result.samples * channels = Len(rec[t].audio_buffer) * frame_size

\* ------------------------------------------------------------------ C38
\* run_once is at the return of llm_client.generate_response and the request
\* has failed
MainGenerationFailed == app = "main" /\ main_pc = "respond" /\ reply.kind = "raise"

\* C38: in JarvisAssistant a failed generation ends run_once with False, at
\* once and with nothing spoken: no call of speak_with_interruption is made
\* and no response is kept; run then sleeps its half second and goes back to
\* the head of its loop, from where the next capture starts; and run is left
\* only by a KeyboardInterrupt, never by another exception.
C38_MainGenerationFailure ==
    /\ [][(MainGenerationFailed /\ main_pc' # "respond")
            => /\ main_pc' = "sleep"
               /\ outcome' = [value |-> "False", at |-> "respond"]
               /\ main_sleep' = MainDelay
               /\ response' = NoText
               /\ tts = IdleTTS
               /\ UNCHANGED ttsVars]_vars
    /\ [][(app = "main" /\ main_pc = "sleep" /\ main_pc' # "sleep")
            => main_pc' = "while" \/ KeyboardInterrupt]_vars
    /\ [][(app = "main" /\ main_pc = "while" /\ main_pc' # "while")
            => main_pc' = "recording" /\ cycles' = cycles + 1]_vars
    /\ [][(app = "main" /\ main_pc # "exited" /\ main_pc' = "exited")
            => kbd \/ KeyboardInterrupt]_vars
    /\ [](app = "main" => main_pc # "raised")

\* the generation of the first cycle failed, nothing was spoken, the sleep
\* is over and run is at the head of its loop again
C38_Witness ==
    /\ app = "main"
    /\ cycles = 1
    /\ main_pc = "while"
    /\ outcome = [value |-> "False", at |-> "respond"]
    /\ response = NoText
    /\ tts = IdleTTS
    /\ mon = IdleMonitor
    /\ ~kbd

\* ---------------------------------------------------------------- C39
\* C39: a call of LaxmanaAI.process_input appends exactly two entries to
\* conversation_history, the entry of the user input and then the entry of
\* the response generated for it, and no step removes or rewrites an entry
\* that is there; so the history holds two entries per call made, a call of
\* get_system_info after k calls reports conversation_count = 2k, and
\* update_knowledge leaves conversation_history as it is.
UserEntry(user_input) == [kind |-> "user_input", user_input |-> user_input]

ResponseEntry(generated) == [kind |-> "response", response |-> generated]

KeepsEntries ==
    /\ Len(conversation_history') >= Len(conversation_history)
    /\ SubSeq(conversation_history', 1, Len(conversation_history)) = conversation_history

C39_TwoEntriesPerCall ==
    /\ [](Len(conversation_history) = 2 * calls)
    /\ [][KeepsEntries]_vars
    /\ [][LaxProcessInput =>
            \E user_input \in UserInputs, choice \in 1 .. 3 :
                conversation_history' = conversation_history \o
                    <<UserEntry(user_input),
                      ResponseEntry(laxmana_generate_response(user_input, choice))>>]_vars
    /\ [][LaxGetSystemInfo => info'.conversation_count = 2 * calls]_vars
    /\ [][LaxUpdateKnowledge => UNCHANGED conversation_history]_vars

\* Every call allowed was made, the knowledge base was updated and
\* get_system_info has reported the count after the last call
C39_Witness ==
    /\ app = "laxmana_test"
    /\ calls = MaxCalls
    /\ Len(conversation_history) = 2 * MaxCalls
    /\ conversation_history[2 * MaxCalls - 1].kind = "user_input"
    /\ conversation_history[2 * MaxCalls].kind = "response"
    /\ DOMAIN knowledge_base # {}
    /\ info.conversation_count = 2 * MaxCalls

====
